---- MODULE Spec2Model ----
(***************************************************************************)
(* Model of the arbitrage engine of bayeloone/mev-templates (rust/):       *)
(*   - UniswapV2Simulator::get_amount_out      (src/rust/src/simulator.rs) *)
(*   - PathFinder                             (src/rust/src/routing/mod.rs)*)
(*   - CrossChainFlashloan::validate_strategy                              *)
(*                     (src/rust/src/strategies/cross_chain_flashloan.rs)  *)
(*   - event_handler's reserve cache           (src/rust/src/strategy.rs)  *)
(*   - TWAPManager, SecurityManager, TokenManager   (src/rust/src/security)*)
(*   - ArbitrageManager, MEVProtection              (src/rust/src/flashbot)*)
(*   - spawn_arbitrage_handler                     (src/rust/src/main.rs)  *)
(*   - ErrorRecovery::retry_with_backoff, HealthChecker::check_health      *)
(*                                     (src/rust/src/monitoring/mod.rs)    *)
(*   - MultiChainRouter               (src/rust/src/protocols/routing.rs)  *)
(*   - FlashloanManager::calculate_fee      (src/rust/src/core/mod.rs)     *)
(*   - StateMonitor::update_pool_state   (src/rust/src/metrics/mod.rs)     *)
(*   - validate_rpc_url                   (src/rust/src/config/mod.rs)     *)
(*   - event_handler's profit test and the broadcast channel of events     *)
(*                        (src/rust/src/strategy.rs, src/rust/src/main.rs) *)
(*   - CrossChainFlashloan::execute_steps, get_stargate_pool_ids           *)
(*                     (src/rust/src/strategies/cross_chain_flashloan.rs,  *)
(*                      src/rust/src/protocols/stargate/config.rs)         *)
(*   - MarketMaker::update_position (src/rust/src/flashbot/market_maker.rs)*)
(* Each subsystem has its own specification over its own variables; the    *)
(* variables of the other subsystems stay at their idle values.            *)
(***************************************************************************)
EXTENDS Integers, Sequences, FiniteSets, TLC

VARIABLES
    amm_args,       \* arguments of the get_amount_out call
    amm_called,     \* whether get_amount_out has returned
    amm_result      \* its Option<U256> result: <<>> (None), <<v>> (Some(v)), or Panic

VARIABLES
    f_pools,        \* find_profitable_paths: the pools argument (Vec<Pool>)
    f_token_in,     \* the token_in argument, also the DFS target
    f_status,       \* "idle", "dfs", "returned" (Ok) or "error" (Err)
    f_path,         \* current_path: the tokens of the DFS path
    f_stack,        \* the active dfs calls, innermost last
    f_visited,      \* self.visited_pairs
    f_paths,        \* paths: the Path records pushed by dfs, in DFS order
    f_returned      \* the Vec<Path> returned by find_profitable_paths

VARIABLES
    p_plan,         \* the execution steps the caller has assembled so far
    p_strategy,     \* the FlashloanStrategy execute_strategy was called with
    p_rpc,          \* whether the node answers get_reserve_data and get_gas_price/get_balance
    p_pc,           \* "build", "execute" (in execute_steps), "done" (Ok) or "error" (Err)
    p_checked,      \* the checks validate_strategy has evaluated, in order
    p_result,       \* "none", "ok", or the check whose error was returned
    p_executed      \* the number of steps execute_steps has executed

VARIABLES
    q_strategy,     \* validate_step_sequence: the strategy's source_chain and flash_token
    q_seq,          \* its loop variables: current_chain, has_flashloan, flashloan_repaid, ...
    q_pc,           \* "loop" (in the for loop), "ok" (returned Ok) or "error" (returned Err)
    q_n,            \* the number of steps the loop has taken
    q_walk_chain,   \* the chain reached by following the Bridge steps taken, from source_chain
    q_off_chain     \* whether some step taken was not on the chain reached before it

VARIABLES
    r_reserves,     \* event_handler: the reserve cache `reserves`, pool address -> Reserve
    r_block,        \* the touched-pool reserves of the block, as the node reports them
    r_applied,      \* the touched_reserves of each Block event handled, in order
    r_touched,      \* touched_pools of the last Block event handled (as a set)
    r_history       \* the reserve cache after each Block event handled, in order

VARIABLES
    t_pool,         \* get_v3_twap: what the pool contract answers (slot0, tokens, observe, ...)
    t_build,        \* "debug" (overflow checks on) or "release" (wrapping arithmetic)
    t_called,       \* whether get_v3_twap has returned
    t_result        \* its result: kind "Err", "None", "Some" or "Panic", with the TWAPData

VARIABLES
    o_sources,      \* SecurityManager: the live pools of the token, each with its dex and quote
    o_op,           \* "none", "get_price" or "get_dex_prices": the call that has returned
    o_pool,         \* the index in o_sources of the `pool` argument of get_price, else 0
    o_result        \* the result of the call

VARIABLES
    v_token,        \* validate_token: what the data sources answer about the token
    v_called,       \* whether validate_token has returned
    v_result        \* its result: an Err, or the TokenValidation

VARIABLES
    e_op,           \* execute_arbitrage: the opportunity (recorded pool liquidity, expected_profit)
    e_node,         \* what the node answers: pool liquidity, simulated profit, gas price
    e_pc,           \* "start", "validated", "prepared", "built", "submitted", "done" or "error"
    e_trace,        \* what execute_arbitrage has done so far, in order
    e_trade,        \* the TradeResult of execute_with_protection, once there is one
    e_analytics,    \* self.analytics
    e_result        \* what execute_arbitrage returned once e_pc is "done" or "error"

execVars == <<e_op, e_node, e_pc, e_trace, e_trade, e_analytics, e_result>>

VARIABLES
    m_config,       \* MEVProtection: whether eden_endpoint and private_relayer are Some
    m_calls,        \* the number of submit_private_tx calls made so far
    m_pc,           \* "ready", "flashbots", "eden", "fallback" or "returned"
    m_attempts,     \* the relay submissions of the current call, in order, each with its outcome
    m_accepted,     \* for each call, the relays that accepted its transaction
    m_result        \* the Result of the current call once m_pc is "returned"

relayVars == <<m_config, m_calls, m_pc, m_attempts, m_accepted, m_result>>

VARIABLES
    d_node,         \* calculate_block_delay: the answers of the node to its three queries
    d_called,       \* whether calculate_block_delay has returned
    d_result        \* its Result<u64>

delayVars == <<d_node, d_called, d_result>>

VARIABLES
    w_bots,         \* MEVProtection::sandwich_bots
    w_block,        \* spawn_arbitrage_handler: the number of NewBlock events received
    w_queue,        \* the opportunities of the current block the for loop has not reached yet
    w_pc,           \* "recv" (awaiting an event), "loop" (in the for loop) or "stopped" (task ended)
    w_feed,         \* the pending transactions the last check_sandwich_risk call was given
    w_risk,         \* the result of the last check_sandwich_risk call
    w_handled,      \* what the loop did with each opportunity of each block
    w_attempts      \* metrics.sandwich_attempts

sandwichVars == <<w_bots, w_block, w_queue, w_pc, w_feed, w_risk, w_handled, w_attempts>>

VARIABLES
    b_config,       \* ErrorRecovery: max_retries and backoff_base (in seconds)
    b_pc,           \* retry_with_backoff: "call" (about to invoke), "sleep", or "returned"
    b_retries,      \* the local variable retries
    b_outcomes,     \* the outcome of each invocation of the operation so far, in order
    b_invoked_at,   \* the time of each invocation, in seconds since the call
    b_sleeps,       \* the durations passed to tokio::time::sleep, in order
    b_remaining,    \* the seconds the current sleep still has to run
    b_now,          \* the seconds elapsed since the call
    b_result        \* the Result returned once b_pc is "returned"

backoffVars == <<b_config, b_pc, b_retries, b_outcomes, b_invoked_at, b_sleeps, b_remaining, b_now, b_result>>

VARIABLES
    h_build,        \* "debug" (overflow checks on) or "release" (wrapping arithmetic)
    h_clock,        \* chrono::Utc::now().timestamp()
    h_metrics,      \* the gauges last_block_time, connected_nodes, memory_usage
    h_healthy,      \* HealthChecker::healthy
    h_last_check,   \* HealthChecker::last_health_check
    h_task,         \* the health check task: "running" or "panicked"
    h_dispatches    \* for each opportunity the handler dispatched, is_healthy() at that moment

healthVars == <<h_build, h_clock, h_metrics, h_healthy, h_last_check, h_task, h_dispatches>>

VARIABLES
    g_order,        \* find_best_rates: the chains in the iteration order of aave_pools
    g_answer,       \* what each chain's get_chain_rates does within the call
    g_pc,           \* "start", "joining" (in join_all), "returned" or "panicked"
    g_slots,        \* the output of each future of join_all once it has completed
    g_completed,    \* the futures in the order they completed
    g_rates         \* the Vec<RateInfo> returned

ratesVars == <<g_order, g_answer, g_pc, g_slots, g_completed, g_rates>>

VARIABLES
    k_chains,       \* MultiChainRouter::chains: for each chain whether bridge_address is Some
    k_rates,        \* the result of find_best_rates, or an Err
    k_min_profit,   \* the min_profit argument of find_arbitrage_routes
    k_called,       \* whether find_arbitrage_routes has returned
    k_result        \* its Result<Vec<CrossChainRoute>>

routesVars == <<k_chains, k_rates, k_min_profit, k_called, k_result>>

VARIABLES
    x_route,        \* execute_route: the steps of the route argument
    x_pools,        \* the chains that have an entry in aave_pools
    x_pc,           \* "loop" (in the for loop), "returned" (Ok) or "error" (Err)
    x_i,            \* the number of steps the loop has gone through
    x_executed,     \* the transactions sent, in order, each with the index of its step
    x_receipts      \* receipts: for each TransactionReceipt the index of the step it is for

routeVars == <<x_route, x_pools, x_pc, x_i, x_executed, x_receipts>>

VARIABLES
    l_provider,     \* calculate_fee: params.provider
    l_amount,       \* params.amount
    l_called,       \* whether calculate_fee has returned
    l_fee           \* the Result<U256> it returned

feeVars == <<l_provider, l_amount, l_called, l_fee>>

VARIABLES
    u_pc,           \* update_pool_state, per task: "idle", "waiting" (in write().await), "locked", "entry"
    u_pool,         \* per task: the pool argument of its current call
    u_count,        \* per task: the update_count its `+= 1` has read
    u_calls,        \* per task: the calls it has started
    u_writer,       \* the task that holds the write guard of pool_states, 0 if none
    u_states,       \* pool_states: HashMap from pool address to update_count
    u_done          \* per pool: the update_pool_state calls that have returned

monitorVars == <<u_pc, u_pool, u_count, u_calls, u_writer, u_states, u_done>>

VARIABLES
    c_url,          \* validate_rpc_url: the url argument, a sequence of characters
    c_called,       \* whether validate_rpc_url has returned
    c_result        \* the Result it returned

configVars == <<c_url, c_called, c_result>>

VARIABLES
    n_profit,       \* event_handler, one path of sorted_spreads: opt.1, the optimised profit
    n_gas_cost,     \* gas_cost_in_usdc of the block
    n_pc,           \* "path" (before the profit test) or "done"
    n_order_ok,     \* whether bundler.order_tx answered Ok
    n_sign_ok,      \* whether bundler.sign_tx answered Ok
    n_sent          \* whether bundler.send_bundle was called for the path

bundleVars == <<n_profit, n_gas_cost, n_pc, n_order_ok, n_sign_ok, n_sent>>

VARIABLES
    j_handler,      \* which handler owns the receiver: "spawn_arbitrage_handler" or "event_handler"
    j_sent,         \* the number of block events the stream has sent on the broadcast channel
    j_buffer,       \* the block events sent that the handler's receiver has not consumed
    j_lagged,       \* whether the channel overwrote events the receiver had not consumed
    j_pc,           \* the handler task: "recv", "processing" or "ended"
    j_current,      \* the block being processed, 0 if none
    j_processed,    \* the blocks the finder has been run for, in order
    j_busy_arrivals \* the blocks whose event was sent while a finder run was in progress

channelVars == <<j_handler, j_sent, j_buffer, j_lagged, j_pc, j_current, j_processed, j_busy_arrivals>>

VARIABLES
    s_len,          \* execute_steps: the number of execution_steps of the strategy
    s_pc,           \* "loop" (in the for loop), "returned" (Ok(ExecutionResult)) or "error" (Err)
    s_executed,     \* the indices of the steps whose transaction was issued, in order
    s_outcomes,     \* the outcome of each step executed, in order
    s_completed,    \* completed_steps: the success flag of each CompletedStep
    s_success       \* ExecutionResult.success, once returned

stepsVars == <<s_len, s_pc, s_executed, s_outcomes, s_completed, s_success>>

VARIABLES
    i_target,       \* MarketMaker: target_inventory.get(&token), None or Some(target)
    i_threshold,    \* rebalance_threshold, a percentage
    i_amount,       \* update_position: the amount argument
    i_pc,           \* "call", "insert", "check", "rebalance", "blocked" (waiting for ever) or "done"
    i_write_held,   \* whether update_position holds the write guard of current_positions
    i_position      \* current_positions.get(&token), None or Some(amount)

makerVars == <<i_target, i_threshold, i_amount, i_pc, i_write_held, i_position>>

VARIABLES
    z_from_chain,   \* get_stargate_pool_ids: from_chain
    z_to_chain,     \* to_chain
    z_token,        \* token, an address
    z_called,       \* whether get_stargate_pool_ids has returned
    z_result        \* the Result<(U256, U256)> it returned

stargateVars == <<z_from_chain, z_to_chain, z_token, z_called, z_result>>

ammVars == <<amm_args, amm_called, amm_result>>

tokenVars == <<v_token, v_called, v_result>>

oracleVars == <<o_sources, o_op, o_pool, o_result>>

twapVars == <<t_pool, t_build, t_called, t_result>>

reservesVars == <<r_reserves, r_block, r_applied, r_touched, r_history>>

seqVars == <<q_strategy, q_seq, q_pc, q_n, q_walk_chain, q_off_chain>>

planVars == <<p_plan, p_strategy, p_rpc, p_pc, p_checked, p_result, p_executed>>

finderVars == <<f_pools, f_token_in, f_status, f_path, f_stack, f_visited, f_paths, f_returned>>

vars ==
    <<ammVars, finderVars, planVars, seqVars, reservesVars, twapVars,
      oracleVars, tokenVars, execVars, relayVars, delayVars, sandwichVars,
      backoffVars, healthVars, ratesVars, routesVars, routeVars, feeVars,
      monitorVars, configVars, bundleVars, channelVars, stepsVars, makerVars,
      stargateVars>>

(***************************************************************************)
(* Option<T>: None is the empty sequence, Some(v) the one-element sequence.*)
(***************************************************************************)
None == <<>>

Some(v) == <<v>>

IsSome(o) == Len(o) = 1

\* Result<Option<T>>::Err(e): not an Option value
Err(e) == <<"Err", e>>

IsErr(r) == Len(r) = 2 /\ r[1] = "Err"

\* Result::Ok(v) of a call whose value is not an Option
Ok(v) == <<"Ok", v>>

IsOk(r) == Len(r) = 2 /\ r[1] = "Ok"

\* a panic of the callee (U256 arithmetic overflow/underflow): no value is returned
Panic == <<"panic", "arithmetic operation overflow">>

(***************************************************************************)
(* The idle values of each subsystem's variables.                          *)
(***************************************************************************)
AmmIdle ==
    /\ amm_args = [amount_in |-> 0, reserve_in |-> 0, reserve_out |-> 0, fee |-> 0]
    /\ amm_called = FALSE
    /\ amm_result = None

FinderIdle ==
    /\ f_pools = <<>>
    /\ f_token_in = 0
    /\ f_status = "idle"
    /\ f_path = <<>>
    /\ f_stack = <<>>
    /\ f_visited = {}
    /\ f_paths = <<>>
    /\ f_returned = <<>>

PlanIdle ==
    /\ p_strategy = <<>>
    /\ p_plan = <<>>
    /\ p_rpc = <<>>
    /\ p_pc = "idle"
    /\ p_checked = <<>>
    /\ p_result = "none"
    /\ p_executed = 0

ReservesIdle ==
    /\ r_reserves = <<>>
    /\ r_block = <<>>
    /\ r_applied = <<>>
    /\ r_touched = {}
    /\ r_history = <<>>

TwapIdle ==
    /\ t_pool = <<>>
    /\ t_build = "none"
    /\ t_called = FALSE
    /\ t_result = <<>>

OracleIdle ==
    /\ o_sources = <<>>
    /\ o_op = "none"
    /\ o_pool = 0
    /\ o_result = <<>>

TokenIdle ==
    /\ v_token = <<>>
    /\ v_called = FALSE
    /\ v_result = <<>>

SeqIdle ==
    /\ q_strategy = <<>>
    /\ q_seq = <<>>
    /\ q_pc = "idle"
    /\ q_n = 0
    /\ q_walk_chain = 0
    /\ q_off_chain = FALSE

ExecIdle ==
    /\ e_op = <<>>
    /\ e_node = <<>>
    /\ e_pc = "idle"
    /\ e_trace = <<>>
    /\ e_trade = <<>>
    /\ e_analytics = <<>>
    /\ e_result = <<>>

RelayIdle ==
    /\ m_config = <<>>
    /\ m_calls = 0
    /\ m_pc = "idle"
    /\ m_attempts = <<>>
    /\ m_accepted = <<>>
    /\ m_result = <<>>

DelayIdle ==
    /\ d_node = <<>>
    /\ d_called = FALSE
    /\ d_result = <<>>

SandwichIdle ==
    /\ w_bots = {}
    /\ w_block = 0
    /\ w_queue = <<>>
    /\ w_pc = "idle"
    /\ w_feed = <<>>
    /\ w_risk = <<>>
    /\ w_handled = {}
    /\ w_attempts = 0

BackoffIdle ==
    /\ b_config = <<>>
    /\ b_pc = "idle"
    /\ b_retries = 0
    /\ b_outcomes = <<>>
    /\ b_invoked_at = <<>>
    /\ b_sleeps = <<>>
    /\ b_remaining = 0
    /\ b_now = 0
    /\ b_result = <<>>

HealthIdle ==
    /\ h_build = "none"
    /\ h_clock = 0
    /\ h_metrics = <<>>
    /\ h_healthy = FALSE
    /\ h_last_check = 0
    /\ h_task = "idle"
    /\ h_dispatches = <<>>

RatesIdle ==
    /\ g_order = <<>>
    /\ g_answer = <<>>
    /\ g_pc = "idle"
    /\ g_slots = <<>>
    /\ g_completed = <<>>
    /\ g_rates = <<>>

RoutesIdle ==
    /\ k_chains = <<>>
    /\ k_rates = <<>>
    /\ k_min_profit = 0
    /\ k_called = FALSE
    /\ k_result = <<>>

RouteIdle ==
    /\ x_route = <<>>
    /\ x_pools = {}
    /\ x_pc = "idle"
    /\ x_i = 0
    /\ x_executed = <<>>
    /\ x_receipts = <<>>

FeeIdle ==
    /\ l_provider = "AAVE"
    /\ l_amount = 0
    /\ l_called = FALSE
    /\ l_fee = None

MonitorIdle ==
    /\ u_pc = <<>>
    /\ u_pool = <<>>
    /\ u_count = <<>>
    /\ u_calls = <<>>
    /\ u_writer = 0
    /\ u_states = <<>>
    /\ u_done = <<>>

ConfigIdle ==
    /\ c_url = <<>>
    /\ c_called = FALSE
    /\ c_result = None

BundleIdle ==
    /\ n_profit = 0
    /\ n_gas_cost = 0
    /\ n_pc = "idle"
    /\ n_order_ok = FALSE
    /\ n_sign_ok = FALSE
    /\ n_sent = FALSE

ChannelIdle ==
    /\ j_handler = "none"
    /\ j_sent = 0
    /\ j_buffer = <<>>
    /\ j_lagged = FALSE
    /\ j_pc = "idle"
    /\ j_current = 0
    /\ j_processed = <<>>
    /\ j_busy_arrivals = {}

StepsIdle ==
    /\ s_len = 0
    /\ s_pc = "idle"
    /\ s_executed = <<>>
    /\ s_outcomes = <<>>
    /\ s_completed = <<>>
    /\ s_success = FALSE

MakerIdle ==
    /\ i_target = None
    /\ i_threshold = 0
    /\ i_amount = 0
    /\ i_pc = "idle"
    /\ i_write_held = FALSE
    /\ i_position = None

StargateIdle ==
    /\ z_from_chain = 0
    /\ z_to_chain = 0
    /\ z_token = ""
    /\ z_called = FALSE
    /\ z_result = None

\* every subsystem runs alone: the tuple of the other subsystems' variables, and
\* the predicate that holds them at their idle values
ammOthers ==
    <<finderVars, planVars, seqVars, reservesVars, twapVars, oracleVars, tokenVars,
      execVars, relayVars, delayVars, sandwichVars, backoffVars, healthVars,
      ratesVars, routesVars, routeVars, feeVars, monitorVars, configVars, bundleVars,
      channelVars, stepsVars, makerVars, stargateVars>>

AmmAlone ==
    /\ FinderIdle
    /\ PlanIdle
    /\ SeqIdle
    /\ ReservesIdle
    /\ TwapIdle
    /\ OracleIdle
    /\ TokenIdle
    /\ ExecIdle
    /\ RelayIdle
    /\ DelayIdle
    /\ SandwichIdle
    /\ BackoffIdle
    /\ HealthIdle
    /\ RatesIdle
    /\ RoutesIdle
    /\ RouteIdle
    /\ FeeIdle
    /\ MonitorIdle
    /\ ConfigIdle
    /\ BundleIdle
    /\ ChannelIdle
    /\ StepsIdle
    /\ MakerIdle
    /\ StargateIdle

finderOthers ==
    <<ammVars, planVars, seqVars, reservesVars, twapVars, oracleVars, tokenVars,
      execVars, relayVars, delayVars, sandwichVars, backoffVars, healthVars,
      ratesVars, routesVars, routeVars, feeVars, monitorVars, configVars, bundleVars,
      channelVars, stepsVars, makerVars, stargateVars>>

FinderAlone ==
    /\ AmmIdle
    /\ PlanIdle
    /\ SeqIdle
    /\ ReservesIdle
    /\ TwapIdle
    /\ OracleIdle
    /\ TokenIdle
    /\ ExecIdle
    /\ RelayIdle
    /\ DelayIdle
    /\ SandwichIdle
    /\ BackoffIdle
    /\ HealthIdle
    /\ RatesIdle
    /\ RoutesIdle
    /\ RouteIdle
    /\ FeeIdle
    /\ MonitorIdle
    /\ ConfigIdle
    /\ BundleIdle
    /\ ChannelIdle
    /\ StepsIdle
    /\ MakerIdle
    /\ StargateIdle

planOthers ==
    <<ammVars, finderVars, seqVars, reservesVars, twapVars, oracleVars, tokenVars,
      execVars, relayVars, delayVars, sandwichVars, backoffVars, healthVars,
      ratesVars, routesVars, routeVars, feeVars, monitorVars, configVars, bundleVars,
      channelVars, stepsVars, makerVars, stargateVars>>

PlanAlone ==
    /\ AmmIdle
    /\ FinderIdle
    /\ SeqIdle
    /\ ReservesIdle
    /\ TwapIdle
    /\ OracleIdle
    /\ TokenIdle
    /\ ExecIdle
    /\ RelayIdle
    /\ DelayIdle
    /\ SandwichIdle
    /\ BackoffIdle
    /\ HealthIdle
    /\ RatesIdle
    /\ RoutesIdle
    /\ RouteIdle
    /\ FeeIdle
    /\ MonitorIdle
    /\ ConfigIdle
    /\ BundleIdle
    /\ ChannelIdle
    /\ StepsIdle
    /\ MakerIdle
    /\ StargateIdle

seqOthers ==
    <<ammVars, finderVars, planVars, reservesVars, twapVars, oracleVars, tokenVars,
      execVars, relayVars, delayVars, sandwichVars, backoffVars, healthVars,
      ratesVars, routesVars, routeVars, feeVars, monitorVars, configVars, bundleVars,
      channelVars, stepsVars, makerVars, stargateVars>>

SeqAlone ==
    /\ AmmIdle
    /\ FinderIdle
    /\ PlanIdle
    /\ ReservesIdle
    /\ TwapIdle
    /\ OracleIdle
    /\ TokenIdle
    /\ ExecIdle
    /\ RelayIdle
    /\ DelayIdle
    /\ SandwichIdle
    /\ BackoffIdle
    /\ HealthIdle
    /\ RatesIdle
    /\ RoutesIdle
    /\ RouteIdle
    /\ FeeIdle
    /\ MonitorIdle
    /\ ConfigIdle
    /\ BundleIdle
    /\ ChannelIdle
    /\ StepsIdle
    /\ MakerIdle
    /\ StargateIdle

reservesOthers ==
    <<ammVars, finderVars, planVars, seqVars, twapVars, oracleVars, tokenVars,
      execVars, relayVars, delayVars, sandwichVars, backoffVars, healthVars,
      ratesVars, routesVars, routeVars, feeVars, monitorVars, configVars, bundleVars,
      channelVars, stepsVars, makerVars, stargateVars>>

ReservesAlone ==
    /\ AmmIdle
    /\ FinderIdle
    /\ PlanIdle
    /\ SeqIdle
    /\ TwapIdle
    /\ OracleIdle
    /\ TokenIdle
    /\ ExecIdle
    /\ RelayIdle
    /\ DelayIdle
    /\ SandwichIdle
    /\ BackoffIdle
    /\ HealthIdle
    /\ RatesIdle
    /\ RoutesIdle
    /\ RouteIdle
    /\ FeeIdle
    /\ MonitorIdle
    /\ ConfigIdle
    /\ BundleIdle
    /\ ChannelIdle
    /\ StepsIdle
    /\ MakerIdle
    /\ StargateIdle

twapOthers ==
    <<ammVars, finderVars, planVars, seqVars, reservesVars, oracleVars, tokenVars,
      execVars, relayVars, delayVars, sandwichVars, backoffVars, healthVars,
      ratesVars, routesVars, routeVars, feeVars, monitorVars, configVars, bundleVars,
      channelVars, stepsVars, makerVars, stargateVars>>

TwapAlone ==
    /\ AmmIdle
    /\ FinderIdle
    /\ PlanIdle
    /\ SeqIdle
    /\ ReservesIdle
    /\ OracleIdle
    /\ TokenIdle
    /\ ExecIdle
    /\ RelayIdle
    /\ DelayIdle
    /\ SandwichIdle
    /\ BackoffIdle
    /\ HealthIdle
    /\ RatesIdle
    /\ RoutesIdle
    /\ RouteIdle
    /\ FeeIdle
    /\ MonitorIdle
    /\ ConfigIdle
    /\ BundleIdle
    /\ ChannelIdle
    /\ StepsIdle
    /\ MakerIdle
    /\ StargateIdle

oracleOthers ==
    <<ammVars, finderVars, planVars, seqVars, reservesVars, twapVars, tokenVars,
      execVars, relayVars, delayVars, sandwichVars, backoffVars, healthVars,
      ratesVars, routesVars, routeVars, feeVars, monitorVars, configVars, bundleVars,
      channelVars, stepsVars, makerVars, stargateVars>>

OracleAlone ==
    /\ AmmIdle
    /\ FinderIdle
    /\ PlanIdle
    /\ SeqIdle
    /\ ReservesIdle
    /\ TwapIdle
    /\ TokenIdle
    /\ ExecIdle
    /\ RelayIdle
    /\ DelayIdle
    /\ SandwichIdle
    /\ BackoffIdle
    /\ HealthIdle
    /\ RatesIdle
    /\ RoutesIdle
    /\ RouteIdle
    /\ FeeIdle
    /\ MonitorIdle
    /\ ConfigIdle
    /\ BundleIdle
    /\ ChannelIdle
    /\ StepsIdle
    /\ MakerIdle
    /\ StargateIdle

tokenOthers ==
    <<ammVars, finderVars, planVars, seqVars, reservesVars, twapVars, oracleVars,
      execVars, relayVars, delayVars, sandwichVars, backoffVars, healthVars,
      ratesVars, routesVars, routeVars, feeVars, monitorVars, configVars, bundleVars,
      channelVars, stepsVars, makerVars, stargateVars>>

TokenAlone ==
    /\ AmmIdle
    /\ FinderIdle
    /\ PlanIdle
    /\ SeqIdle
    /\ ReservesIdle
    /\ TwapIdle
    /\ OracleIdle
    /\ ExecIdle
    /\ RelayIdle
    /\ DelayIdle
    /\ SandwichIdle
    /\ BackoffIdle
    /\ HealthIdle
    /\ RatesIdle
    /\ RoutesIdle
    /\ RouteIdle
    /\ FeeIdle
    /\ MonitorIdle
    /\ ConfigIdle
    /\ BundleIdle
    /\ ChannelIdle
    /\ StepsIdle
    /\ MakerIdle
    /\ StargateIdle

execOthers ==
    <<ammVars, finderVars, planVars, seqVars, reservesVars, twapVars, oracleVars,
      tokenVars, relayVars, delayVars, sandwichVars, backoffVars, healthVars,
      ratesVars, routesVars, routeVars, feeVars, monitorVars, configVars, bundleVars,
      channelVars, stepsVars, makerVars, stargateVars>>

ExecAlone ==
    /\ AmmIdle
    /\ FinderIdle
    /\ PlanIdle
    /\ SeqIdle
    /\ ReservesIdle
    /\ TwapIdle
    /\ OracleIdle
    /\ TokenIdle
    /\ RelayIdle
    /\ DelayIdle
    /\ SandwichIdle
    /\ BackoffIdle
    /\ HealthIdle
    /\ RatesIdle
    /\ RoutesIdle
    /\ RouteIdle
    /\ FeeIdle
    /\ MonitorIdle
    /\ ConfigIdle
    /\ BundleIdle
    /\ ChannelIdle
    /\ StepsIdle
    /\ MakerIdle
    /\ StargateIdle

relayOthers ==
    <<ammVars, finderVars, planVars, seqVars, reservesVars, twapVars, oracleVars,
      tokenVars, execVars, delayVars, sandwichVars, backoffVars, healthVars,
      ratesVars, routesVars, routeVars, feeVars, monitorVars, configVars, bundleVars,
      channelVars, stepsVars, makerVars, stargateVars>>

RelayAlone ==
    /\ AmmIdle
    /\ FinderIdle
    /\ PlanIdle
    /\ SeqIdle
    /\ ReservesIdle
    /\ TwapIdle
    /\ OracleIdle
    /\ TokenIdle
    /\ ExecIdle
    /\ DelayIdle
    /\ SandwichIdle
    /\ BackoffIdle
    /\ HealthIdle
    /\ RatesIdle
    /\ RoutesIdle
    /\ RouteIdle
    /\ FeeIdle
    /\ MonitorIdle
    /\ ConfigIdle
    /\ BundleIdle
    /\ ChannelIdle
    /\ StepsIdle
    /\ MakerIdle
    /\ StargateIdle

delayOthers ==
    <<ammVars, finderVars, planVars, seqVars, reservesVars, twapVars, oracleVars,
      tokenVars, execVars, relayVars, sandwichVars, backoffVars, healthVars,
      ratesVars, routesVars, routeVars, feeVars, monitorVars, configVars, bundleVars,
      channelVars, stepsVars, makerVars, stargateVars>>

DelayAlone ==
    /\ AmmIdle
    /\ FinderIdle
    /\ PlanIdle
    /\ SeqIdle
    /\ ReservesIdle
    /\ TwapIdle
    /\ OracleIdle
    /\ TokenIdle
    /\ ExecIdle
    /\ RelayIdle
    /\ SandwichIdle
    /\ BackoffIdle
    /\ HealthIdle
    /\ RatesIdle
    /\ RoutesIdle
    /\ RouteIdle
    /\ FeeIdle
    /\ MonitorIdle
    /\ ConfigIdle
    /\ BundleIdle
    /\ ChannelIdle
    /\ StepsIdle
    /\ MakerIdle
    /\ StargateIdle

sandwichOthers ==
    <<ammVars, finderVars, planVars, seqVars, reservesVars, twapVars, oracleVars,
      tokenVars, execVars, relayVars, delayVars, backoffVars, healthVars, ratesVars,
      routesVars, routeVars, feeVars, monitorVars, configVars, bundleVars,
      channelVars, stepsVars, makerVars, stargateVars>>

SandwichAlone ==
    /\ AmmIdle
    /\ FinderIdle
    /\ PlanIdle
    /\ SeqIdle
    /\ ReservesIdle
    /\ TwapIdle
    /\ OracleIdle
    /\ TokenIdle
    /\ ExecIdle
    /\ RelayIdle
    /\ DelayIdle
    /\ BackoffIdle
    /\ HealthIdle
    /\ RatesIdle
    /\ RoutesIdle
    /\ RouteIdle
    /\ FeeIdle
    /\ MonitorIdle
    /\ ConfigIdle
    /\ BundleIdle
    /\ ChannelIdle
    /\ StepsIdle
    /\ MakerIdle
    /\ StargateIdle

backoffOthers ==
    <<ammVars, finderVars, planVars, seqVars, reservesVars, twapVars, oracleVars,
      tokenVars, execVars, relayVars, delayVars, sandwichVars, healthVars, ratesVars,
      routesVars, routeVars, feeVars, monitorVars, configVars, bundleVars,
      channelVars, stepsVars, makerVars, stargateVars>>

BackoffAlone ==
    /\ AmmIdle
    /\ FinderIdle
    /\ PlanIdle
    /\ SeqIdle
    /\ ReservesIdle
    /\ TwapIdle
    /\ OracleIdle
    /\ TokenIdle
    /\ ExecIdle
    /\ RelayIdle
    /\ DelayIdle
    /\ SandwichIdle
    /\ HealthIdle
    /\ RatesIdle
    /\ RoutesIdle
    /\ RouteIdle
    /\ FeeIdle
    /\ MonitorIdle
    /\ ConfigIdle
    /\ BundleIdle
    /\ ChannelIdle
    /\ StepsIdle
    /\ MakerIdle
    /\ StargateIdle

healthOthers ==
    <<ammVars, finderVars, planVars, seqVars, reservesVars, twapVars, oracleVars,
      tokenVars, execVars, relayVars, delayVars, sandwichVars, backoffVars,
      ratesVars, routesVars, routeVars, feeVars, monitorVars, configVars, bundleVars,
      channelVars, stepsVars, makerVars, stargateVars>>

HealthAlone ==
    /\ AmmIdle
    /\ FinderIdle
    /\ PlanIdle
    /\ SeqIdle
    /\ ReservesIdle
    /\ TwapIdle
    /\ OracleIdle
    /\ TokenIdle
    /\ ExecIdle
    /\ RelayIdle
    /\ DelayIdle
    /\ SandwichIdle
    /\ BackoffIdle
    /\ RatesIdle
    /\ RoutesIdle
    /\ RouteIdle
    /\ FeeIdle
    /\ MonitorIdle
    /\ ConfigIdle
    /\ BundleIdle
    /\ ChannelIdle
    /\ StepsIdle
    /\ MakerIdle
    /\ StargateIdle

ratesOthers ==
    <<ammVars, finderVars, planVars, seqVars, reservesVars, twapVars, oracleVars,
      tokenVars, execVars, relayVars, delayVars, sandwichVars, backoffVars,
      healthVars, routesVars, routeVars, feeVars, monitorVars, configVars,
      bundleVars, channelVars, stepsVars, makerVars, stargateVars>>

RatesAlone ==
    /\ AmmIdle
    /\ FinderIdle
    /\ PlanIdle
    /\ SeqIdle
    /\ ReservesIdle
    /\ TwapIdle
    /\ OracleIdle
    /\ TokenIdle
    /\ ExecIdle
    /\ RelayIdle
    /\ DelayIdle
    /\ SandwichIdle
    /\ BackoffIdle
    /\ HealthIdle
    /\ RoutesIdle
    /\ RouteIdle
    /\ FeeIdle
    /\ MonitorIdle
    /\ ConfigIdle
    /\ BundleIdle
    /\ ChannelIdle
    /\ StepsIdle
    /\ MakerIdle
    /\ StargateIdle

routesOthers ==
    <<ammVars, finderVars, planVars, seqVars, reservesVars, twapVars, oracleVars,
      tokenVars, execVars, relayVars, delayVars, sandwichVars, backoffVars,
      healthVars, ratesVars, routeVars, feeVars, monitorVars, configVars, bundleVars,
      channelVars, stepsVars, makerVars, stargateVars>>

RoutesAlone ==
    /\ AmmIdle
    /\ FinderIdle
    /\ PlanIdle
    /\ SeqIdle
    /\ ReservesIdle
    /\ TwapIdle
    /\ OracleIdle
    /\ TokenIdle
    /\ ExecIdle
    /\ RelayIdle
    /\ DelayIdle
    /\ SandwichIdle
    /\ BackoffIdle
    /\ HealthIdle
    /\ RatesIdle
    /\ RouteIdle
    /\ FeeIdle
    /\ MonitorIdle
    /\ ConfigIdle
    /\ BundleIdle
    /\ ChannelIdle
    /\ StepsIdle
    /\ MakerIdle
    /\ StargateIdle

routeOthers ==
    <<ammVars, finderVars, planVars, seqVars, reservesVars, twapVars, oracleVars,
      tokenVars, execVars, relayVars, delayVars, sandwichVars, backoffVars,
      healthVars, ratesVars, routesVars, feeVars, monitorVars, configVars,
      bundleVars, channelVars, stepsVars, makerVars, stargateVars>>

RouteAlone ==
    /\ AmmIdle
    /\ FinderIdle
    /\ PlanIdle
    /\ SeqIdle
    /\ ReservesIdle
    /\ TwapIdle
    /\ OracleIdle
    /\ TokenIdle
    /\ ExecIdle
    /\ RelayIdle
    /\ DelayIdle
    /\ SandwichIdle
    /\ BackoffIdle
    /\ HealthIdle
    /\ RatesIdle
    /\ RoutesIdle
    /\ FeeIdle
    /\ MonitorIdle
    /\ ConfigIdle
    /\ BundleIdle
    /\ ChannelIdle
    /\ StepsIdle
    /\ MakerIdle
    /\ StargateIdle

feeOthers ==
    <<ammVars, finderVars, planVars, seqVars, reservesVars, twapVars, oracleVars,
      tokenVars, execVars, relayVars, delayVars, sandwichVars, backoffVars,
      healthVars, ratesVars, routesVars, routeVars, monitorVars, configVars,
      bundleVars, channelVars, stepsVars, makerVars, stargateVars>>

FeeAlone ==
    /\ AmmIdle
    /\ FinderIdle
    /\ PlanIdle
    /\ SeqIdle
    /\ ReservesIdle
    /\ TwapIdle
    /\ OracleIdle
    /\ TokenIdle
    /\ ExecIdle
    /\ RelayIdle
    /\ DelayIdle
    /\ SandwichIdle
    /\ BackoffIdle
    /\ HealthIdle
    /\ RatesIdle
    /\ RoutesIdle
    /\ RouteIdle
    /\ MonitorIdle
    /\ ConfigIdle
    /\ BundleIdle
    /\ ChannelIdle
    /\ StepsIdle
    /\ MakerIdle
    /\ StargateIdle

monitorOthers ==
    <<ammVars, finderVars, planVars, seqVars, reservesVars, twapVars, oracleVars,
      tokenVars, execVars, relayVars, delayVars, sandwichVars, backoffVars,
      healthVars, ratesVars, routesVars, routeVars, feeVars, configVars, bundleVars,
      channelVars, stepsVars, makerVars, stargateVars>>

MonitorAlone ==
    /\ AmmIdle
    /\ FinderIdle
    /\ PlanIdle
    /\ SeqIdle
    /\ ReservesIdle
    /\ TwapIdle
    /\ OracleIdle
    /\ TokenIdle
    /\ ExecIdle
    /\ RelayIdle
    /\ DelayIdle
    /\ SandwichIdle
    /\ BackoffIdle
    /\ HealthIdle
    /\ RatesIdle
    /\ RoutesIdle
    /\ RouteIdle
    /\ FeeIdle
    /\ ConfigIdle
    /\ BundleIdle
    /\ ChannelIdle
    /\ StepsIdle
    /\ MakerIdle
    /\ StargateIdle

configOthers ==
    <<ammVars, finderVars, planVars, seqVars, reservesVars, twapVars, oracleVars,
      tokenVars, execVars, relayVars, delayVars, sandwichVars, backoffVars,
      healthVars, ratesVars, routesVars, routeVars, feeVars, monitorVars, bundleVars,
      channelVars, stepsVars, makerVars, stargateVars>>

ConfigAlone ==
    /\ AmmIdle
    /\ FinderIdle
    /\ PlanIdle
    /\ SeqIdle
    /\ ReservesIdle
    /\ TwapIdle
    /\ OracleIdle
    /\ TokenIdle
    /\ ExecIdle
    /\ RelayIdle
    /\ DelayIdle
    /\ SandwichIdle
    /\ BackoffIdle
    /\ HealthIdle
    /\ RatesIdle
    /\ RoutesIdle
    /\ RouteIdle
    /\ FeeIdle
    /\ MonitorIdle
    /\ BundleIdle
    /\ ChannelIdle
    /\ StepsIdle
    /\ MakerIdle
    /\ StargateIdle

bundleOthers ==
    <<ammVars, finderVars, planVars, seqVars, reservesVars, twapVars, oracleVars,
      tokenVars, execVars, relayVars, delayVars, sandwichVars, backoffVars,
      healthVars, ratesVars, routesVars, routeVars, feeVars, monitorVars, configVars,
      channelVars, stepsVars, makerVars, stargateVars>>

BundleAlone ==
    /\ AmmIdle
    /\ FinderIdle
    /\ PlanIdle
    /\ SeqIdle
    /\ ReservesIdle
    /\ TwapIdle
    /\ OracleIdle
    /\ TokenIdle
    /\ ExecIdle
    /\ RelayIdle
    /\ DelayIdle
    /\ SandwichIdle
    /\ BackoffIdle
    /\ HealthIdle
    /\ RatesIdle
    /\ RoutesIdle
    /\ RouteIdle
    /\ FeeIdle
    /\ MonitorIdle
    /\ ConfigIdle
    /\ ChannelIdle
    /\ StepsIdle
    /\ MakerIdle
    /\ StargateIdle

channelOthers ==
    <<ammVars, finderVars, planVars, seqVars, reservesVars, twapVars, oracleVars,
      tokenVars, execVars, relayVars, delayVars, sandwichVars, backoffVars,
      healthVars, ratesVars, routesVars, routeVars, feeVars, monitorVars, configVars,
      bundleVars, stepsVars, makerVars, stargateVars>>

ChannelAlone ==
    /\ AmmIdle
    /\ FinderIdle
    /\ PlanIdle
    /\ SeqIdle
    /\ ReservesIdle
    /\ TwapIdle
    /\ OracleIdle
    /\ TokenIdle
    /\ ExecIdle
    /\ RelayIdle
    /\ DelayIdle
    /\ SandwichIdle
    /\ BackoffIdle
    /\ HealthIdle
    /\ RatesIdle
    /\ RoutesIdle
    /\ RouteIdle
    /\ FeeIdle
    /\ MonitorIdle
    /\ ConfigIdle
    /\ BundleIdle
    /\ StepsIdle
    /\ MakerIdle
    /\ StargateIdle

stepsOthers ==
    <<ammVars, finderVars, planVars, seqVars, reservesVars, twapVars, oracleVars,
      tokenVars, execVars, relayVars, delayVars, sandwichVars, backoffVars,
      healthVars, ratesVars, routesVars, routeVars, feeVars, monitorVars, configVars,
      bundleVars, channelVars, makerVars, stargateVars>>

StepsAlone ==
    /\ AmmIdle
    /\ FinderIdle
    /\ PlanIdle
    /\ SeqIdle
    /\ ReservesIdle
    /\ TwapIdle
    /\ OracleIdle
    /\ TokenIdle
    /\ ExecIdle
    /\ RelayIdle
    /\ DelayIdle
    /\ SandwichIdle
    /\ BackoffIdle
    /\ HealthIdle
    /\ RatesIdle
    /\ RoutesIdle
    /\ RouteIdle
    /\ FeeIdle
    /\ MonitorIdle
    /\ ConfigIdle
    /\ BundleIdle
    /\ ChannelIdle
    /\ MakerIdle
    /\ StargateIdle

makerOthers ==
    <<ammVars, finderVars, planVars, seqVars, reservesVars, twapVars, oracleVars,
      tokenVars, execVars, relayVars, delayVars, sandwichVars, backoffVars,
      healthVars, ratesVars, routesVars, routeVars, feeVars, monitorVars, configVars,
      bundleVars, channelVars, stepsVars, stargateVars>>

MakerAlone ==
    /\ AmmIdle
    /\ FinderIdle
    /\ PlanIdle
    /\ SeqIdle
    /\ ReservesIdle
    /\ TwapIdle
    /\ OracleIdle
    /\ TokenIdle
    /\ ExecIdle
    /\ RelayIdle
    /\ DelayIdle
    /\ SandwichIdle
    /\ BackoffIdle
    /\ HealthIdle
    /\ RatesIdle
    /\ RoutesIdle
    /\ RouteIdle
    /\ FeeIdle
    /\ MonitorIdle
    /\ ConfigIdle
    /\ BundleIdle
    /\ ChannelIdle
    /\ StepsIdle
    /\ StargateIdle

stargateOthers ==
    <<ammVars, finderVars, planVars, seqVars, reservesVars, twapVars, oracleVars,
      tokenVars, execVars, relayVars, delayVars, sandwichVars, backoffVars,
      healthVars, ratesVars, routesVars, routeVars, feeVars, monitorVars, configVars,
      bundleVars, channelVars, stepsVars, makerVars>>

StargateAlone ==
    /\ AmmIdle
    /\ FinderIdle
    /\ PlanIdle
    /\ SeqIdle
    /\ ReservesIdle
    /\ TwapIdle
    /\ OracleIdle
    /\ TokenIdle
    /\ ExecIdle
    /\ RelayIdle
    /\ DelayIdle
    /\ SandwichIdle
    /\ BackoffIdle
    /\ HealthIdle
    /\ RatesIdle
    /\ RoutesIdle
    /\ RouteIdle
    /\ FeeIdle
    /\ MonitorIdle
    /\ ConfigIdle
    /\ BundleIdle
    /\ ChannelIdle
    /\ StepsIdle
    /\ MakerIdle

(***************************************************************************)
(* UniswapV2Simulator::get_amount_out                                      *)
(***************************************************************************)
\* bounds of the inputs explored
MaxAmountIn == 6

MaxReserve == 14

\* fee arguments explored: basis-point values of [0, 10000], hundredths of a
\* basis point (300 = 0.3%), and one value past 100 * 1000 (U256 underflow)
Fees == {0, 30, 99, 100, 300, 301, 5000, 10000, 100100}

\* line 43: reserve_in * 30 / 100, integer division
ImpactLimit_Mut(reserve_in) == (reserve_in * 50) \div 100

ImpactLimit(reserve_in) == (reserve_in * 30) \div 100

\* line 47: let fee = fee / U256::from(100)
FeeUnits(fee) == fee \div 100

\* line 48: amount_in * (1000 - fee); the caller guards 1000 >= fee
AmountInWithFee_Mut(amount_in, fee) == amount_in * (1000 + FeeUnits(fee))

AmountInWithFee(amount_in, fee) == amount_in * (1000 - FeeUnits(fee))

get_amount_out(amount_in, reserve_in, reserve_out, fee) ==
    IF reserve_in = 0 \/ reserve_out = 0 THEN None
    ELSE IF amount_in > ImpactLimit(reserve_in) THEN None
    ELSE IF FeeUnits(fee) > 1000 THEN Panic    \* U256 subtraction underflow
    ELSE LET amount_in_with_fee == AmountInWithFee(amount_in, fee)
             numerator == amount_in_with_fee * reserve_out
             denominator == (reserve_in * 1000) + amount_in_with_fee
         IN  IF denominator = 0 THEN None       \* checked_div(..)?
             ELSE LET amount_out == numerator \div denominator
                      min_out == (amount_out * 99) \div 100
                  IN  IF min_out = 0 THEN None ELSE Some(amount_out)

\* the caller's arguments: any U256 values within the bounds
AmmInit ==
    /\ amm_args \in [amount_in : 0..MaxAmountIn, reserve_in : 0..MaxReserve,
                     reserve_out : 0..MaxReserve, fee : Fees]
    /\ amm_called = FALSE
    /\ amm_result = None
    /\ AmmAlone

\* the call of get_amount_out on the arguments
AmmCall ==
    /\ ~amm_called
    /\ amm_called' = TRUE
    /\ amm_result' = get_amount_out(amm_args.amount_in, amm_args.reserve_in,
                                    amm_args.reserve_out, amm_args.fee)
    /\ UNCHANGED amm_args
    /\ UNCHANGED ammOthers

AmmNext == AmmCall

SpecAmm == AmmInit /\ [][AmmNext]_vars

\* how far reserve_out is raised when two outputs are compared
MaxDelta == 4

\* the output of the call with reserve_out raised by d
OutRaisedReserve(d) ==
    get_amount_out(amm_args.amount_in, amm_args.reserve_in,
                   amm_args.reserve_out + d, amm_args.fee)

\* the output of the call with the fee replaced by f
OutWithFee(f) ==
    get_amount_out(amm_args.amount_in, amm_args.reserve_in, amm_args.reserve_out, f)

\* C8: get_amount_out returns no value whenever amount_in > 0.30 x reserve_in,
\* that is whenever 100 * amount_in > 30 * reserve_in.
C8_ImpactGuard ==
    (amm_called /\ 100 * amm_args.amount_in > 30 * amm_args.reserve_in)
        => ~IsSome(amm_result)

\* the guard itself decides: reserves are non-zero, 30% of reserve_in is not an
\* integer, and amount_in is the first integer above it
C8_Witness ==
    /\ amm_called
    /\ amm_args.reserve_in = 11 /\ amm_args.amount_in = 4 /\ amm_args.reserve_out > 0
    /\ amm_args.fee = 300
    /\ amm_result = None

\* C9 (as stated): for positive amount_in the output is STRICTLY increasing in
\* reserve_out and STRICTLY decreasing in the fee, whenever both results exist.
C9_StrictMonotone ==
    (amm_called /\ amm_args.amount_in > 0 /\ IsSome(amm_result)) =>
        /\ \A d \in 1..MaxDelta :
              IsSome(OutRaisedReserve(d)) => OutRaisedReserve(d)[1] > amm_result[1]
        /\ \A f \in Fees :
              (f > amm_args.fee /\ IsSome(OutWithFee(f))) => OutWithFee(f)[1] < amm_result[1]

\* C9 (amended): for positive amount_in the output is non-decreasing in
\* reserve_out and non-increasing in the fee, whenever both results exist.
C9_WeakMonotone ==
    (amm_called /\ amm_args.amount_in > 0 /\ IsSome(amm_result)) =>
        /\ \A d \in 1..MaxDelta :
              IsSome(OutRaisedReserve(d)) => OutRaisedReserve(d)[1] >= amm_result[1]
        /\ \A f \in Fees :
              (f > amm_args.fee /\ IsSome(OutWithFee(f))) => OutWithFee(f)[1] <= amm_result[1]

\* both comparisons happen: a raised reserve gives a larger output, a raised fee a
\* smaller one
C9_Witness ==
    /\ amm_called /\ amm_args.amount_in > 0 /\ IsSome(amm_result)
    /\ \E d \in 1..MaxDelta :
          IsSome(OutRaisedReserve(d)) /\ OutRaisedReserve(d)[1] > amm_result[1]
    /\ \E f \in Fees :
          f > amm_args.fee /\ IsSome(OutWithFee(f)) /\ OutWithFee(f)[1] < amm_result[1]

\* the spec's formula: in_fee = amount_in * (10000 - fee_bps),
\* out = floor(in_fee * reserve_out / (reserve_in * 10000 + in_fee))
CanonicalOut(amount_in, reserve_in, reserve_out, fee_bps) ==
    LET in_fee == amount_in * (10000 - fee_bps)
    IN  (in_fee * reserve_out) \div (reserve_in * 10000 + in_fee)

\* C10: whenever get_amount_out returns a value, it equals the spec's formula
\* for every fee_bps in [0, 10000] passed as the fee argument.
C10_CanonicalFormula ==
    (amm_called /\ amm_args.fee \in 0..10000 /\ IsSome(amm_result)) =>
        amm_result[1] = CanonicalOut(amm_args.amount_in, amm_args.reserve_in,
                                     amm_args.reserve_out, amm_args.fee)

(***************************************************************************)
(* PathFinder (routing/mod.rs)                                             *)
(***************************************************************************)
MAX_HOPS == 4

MIN_PROFIT_THRESHOLD == 1000000

MAX_IMPACT_THRESHOLD_Mut == 300 * 10

MAX_IMPACT_THRESHOLD == 300

\* Pool records; addresses and tokens are numbers, ordered as Address values are
Pool(a, t0, t1) == [address |-> a, token0 |-> t0, token1 |-> t1]

\* the pool lists explored: the triangle of tests/routing_tests.rs, two pools
\* over one pair, a square, and a triangle with a doubled edge
PoolSets ==
    { <<Pool(101, 1, 2), Pool(102, 2, 3), Pool(103, 3, 1)>>,
      <<Pool(101, 1, 2), Pool(104, 1, 2)>>,
      <<Pool(101, 1, 2), Pool(102, 2, 3), Pool(105, 3, 4), Pool(106, 1, 4)>>,
      <<Pool(101, 1, 2), Pool(104, 1, 2), Pool(102, 2, 3), Pool(103, 3, 1)>> }

TokensOf(pools) == {pools[i].token0 : i \in 1..Len(pools)} \cup {pools[i].token1 : i \in 1..Len(pools)}

\* build_pool_graph: graph[t] is the Vec of (neighbour token, pool address) edges
\* of token t, in insertion order: for each pool, token0 -> token1 is pushed on
\* token0's list, then token1 -> token0 on token1's list
RECURSIVE EdgesOf(_, _, _)
EdgesOf(pools, t, i) ==
    IF i > Len(pools) THEN <<>>
    ELSE LET p == pools[i]
             e0 == IF p.token0 = t THEN <<[token |-> p.token1, pool |-> p.address]>> ELSE <<>>
             e1 == IF p.token1 = t THEN <<[token |-> p.token0, pool |-> p.address]>> ELSE <<>>
         IN  e0 \o e1 \o EdgesOf(pools, t, i + 1)

\* graph.get(&current): the edge list, empty when the token has no entry
Neighbors(pools, t) == EdgesOf(pools, t, 1)

\* lines 123-127: the unordered pair key
PairKey(a, b) == IF a < b THEN <<a, b>> ELSE <<b, a>>

\* simulate_path is a stub in the source (todo!): its (profit, impact) result is
\* any of these values
SimProfits == {999999, 1000000, 1200000, 2000000}

SimImpacts == {0, 300, 301}

\* estimate_gas_cost: 21000 + 100000 per hop
estimate_gas_cost(tokens) == 21000 + 100000 * (Len(tokens) - 1)

\* validate_path given simulate_path's result: None, or Some(Path)
validate_path(tokens, profit, impact) ==
    IF profit < MIN_PROFIT_THRESHOLD THEN None
    ELSE IF impact > MAX_IMPACT_THRESHOLD THEN None
    ELSE Some([pools |-> <<>>,
               tokens |-> tokens,
               expected_profit |-> profit,
               gas_estimate |-> estimate_gas_cost(tokens),
               impact_score |-> impact])

\* lines 199-204: the filter's predicate
IsProfitable(path) ==
    /\ path.expected_profit > path.gas_estimate
    /\ path.impact_score <= MAX_IMPACT_THRESHOLD

\* lines 209-210: U256 division truncates
Ratio(path) == path.expected_profit \div path.gas_estimate

\* Vec::sort_by with ratio_b.cmp(&ratio_a): a stable sort, descending by Ratio
InsertByRatio(sorted, x) ==
    LET k == Cardinality({j \in 1..Len(sorted) : Ratio(sorted[j]) >= Ratio(x)})
    IN  SubSeq(sorted, 1, k) \o <<x>> \o SubSeq(sorted, k + 1, Len(sorted))

RECURSIVE SortByRatio(_, _)
SortByRatio(paths, n) ==
    IF n = 0 THEN <<>> ELSE InsertByRatio(SortByRatio(paths, n - 1), paths[n])

filter_profitable_paths(paths) ==
    LET profitable == SelectSeq(paths, IsProfitable)
    IN  SortByRatio(profitable, Len(profitable))

\* the arguments of one find_profitable_paths call on a new PathFinder
FinderInit ==
    /\ f_pools \in PoolSets
    /\ f_token_in \in {1, 2}
    /\ f_status = "idle"
    /\ f_path = <<>>
    /\ f_stack = <<>>
    /\ f_visited = {}
    /\ f_paths = <<>>
    /\ f_returned = <<>>
    /\ FinderAlone

\* a dfs call: its current token, the index of the next neighbour of its for
\* loop, and the pair its caller inserted for it (<<>> for the first call)
Frame(current, pair) == [current |-> current, idx |-> 1, pair |-> pair]

Top == f_stack[Len(f_stack)]

TopEdges == Neighbors(f_pools, Top.current)

\* the for loop of the innermost call has a next neighbour
HasEdge == f_status = "dfs" /\ Top.idx <= Len(TopEdges)

Edge == TopEdges[Top.idx]

EdgePair == PairKey(Top.current, Edge.token)

\* the loop moves to its next neighbour
Advance == [f_stack EXCEPT ![Len(f_stack)].idx = @ + 1]

\* lines 47-65: the call starts the DFS at token_in with current_path = [token_in]
FindStart ==
    /\ f_status = "idle"
    /\ f_status' = "dfs"
    /\ f_path' = <<f_token_in>>
    /\ f_stack' = <<Frame(f_token_in, <<>>)>>
    /\ f_paths' = <<>>
    /\ UNCHANGED <<f_pools, f_token_in, f_visited, f_returned>>
    /\ UNCHANGED finderOthers

\* lines 129-131: the pair is already in visited_pairs
DfsSkipVisited ==
    /\ HasEdge
    /\ EdgePair \in f_visited
    /\ f_stack' = Advance
    /\ UNCHANGED <<f_pools, f_token_in, f_status, f_path, f_visited, f_paths, f_returned>>
    /\ UNCHANGED finderOthers

\* lines 134-141: check_pool_safety answers Ok(false); the pair is removed again
DfsUnsafe ==
    /\ HasEdge
    /\ EdgePair \notin f_visited
    /\ f_stack' = Advance
    /\ UNCHANGED <<f_pools, f_token_in, f_status, f_path, f_visited, f_paths, f_returned>>
    /\ UNCHANGED finderOthers

\* lines 134-138: check_pool_safety answers Err; `?` returns it through every
\* active call, the inserted pairs stay in visited_pairs
DfsSafetyError ==
    /\ HasEdge
    /\ EdgePair \notin f_visited
    /\ f_visited' = f_visited \cup {EdgePair}
    /\ f_status' = "error"
    /\ f_stack' = <<>>
    /\ f_path' = <<>>
    /\ UNCHANGED <<f_pools, f_token_in, f_paths, f_returned>>
    /\ UNCHANGED finderOthers

\* lines 143-147 with the callee returning at lines 107-109: the path is longer
\* than max_hops
DfsTooDeep ==
    /\ HasEdge
    /\ EdgePair \notin f_visited
    /\ Len(f_path) + 1 > MAX_HOPS
    /\ f_stack' = Advance
    /\ UNCHANGED <<f_pools, f_token_in, f_status, f_path, f_visited, f_paths, f_returned>>
    /\ UNCHANGED finderOthers

\* lines 143-147 with the callee returning at lines 112-117: the path closes a
\* cycle; simulate_path answers (profit, impact) and validate_path decides
DfsCycle ==
    /\ HasEdge
    /\ EdgePair \notin f_visited
    /\ Len(f_path) + 1 <= MAX_HOPS
    /\ Edge.token = f_token_in
    /\ \E profit \in SimProfits, impact \in SimImpacts :
          LET valid_path == validate_path(Append(f_path, Edge.token), profit, impact)
          IN  f_paths' = IF IsSome(valid_path) THEN Append(f_paths, valid_path[1]) ELSE f_paths
    /\ f_stack' = Advance
    /\ UNCHANGED <<f_pools, f_token_in, f_status, f_path, f_visited, f_returned>>
    /\ UNCHANGED finderOthers

\* line 156: simulate_path answers Err; `?` returns it through every active call
DfsSimError ==
    /\ HasEdge
    /\ EdgePair \notin f_visited
    /\ Len(f_path) + 1 <= MAX_HOPS
    /\ Edge.token = f_token_in
    /\ f_visited' = f_visited \cup {EdgePair}
    /\ f_status' = "error"
    /\ f_stack' = <<>>
    /\ f_path' = <<>>
    /\ UNCHANGED <<f_pools, f_token_in, f_paths, f_returned>>
    /\ UNCHANGED finderOthers

\* lines 143-144: the callee goes on to its own for loop
DfsDescend ==
    /\ HasEdge
    /\ EdgePair \notin f_visited
    /\ Len(f_path) + 1 <= MAX_HOPS
    /\ Edge.token # f_token_in
    /\ f_visited' = f_visited \cup {EdgePair}
    /\ f_path' = Append(f_path, Edge.token)
    /\ f_stack' = Append(Advance, Frame(Edge.token, EdgePair))
    /\ UNCHANGED <<f_pools, f_token_in, f_status, f_paths, f_returned>>
    /\ UNCHANGED finderOthers

\* line 151 then lines 145-147 of the caller: the for loop of an inner call is
\* over; the caller pops the token and releases the pair
DfsReturn ==
    /\ f_status = "dfs"
    /\ Len(f_stack) > 1
    /\ Top.idx > Len(TopEdges)
    /\ f_path' = SubSeq(f_path, 1, Len(f_path) - 1)
    /\ f_visited' = f_visited \ {Top.pair}
    /\ f_stack' = SubSeq(f_stack, 1, Len(f_stack) - 1)
    /\ UNCHANGED <<f_pools, f_token_in, f_status, f_paths, f_returned>>
    /\ UNCHANGED finderOthers

\* lines 67-76: the first dfs call is over; the paths are filtered, sorted and
\* returned
FindReturn ==
    /\ f_status = "dfs"
    /\ Len(f_stack) = 1
    /\ Top.idx > Len(TopEdges)
    /\ f_returned' = filter_profitable_paths(f_paths)
    /\ f_status' = "returned"
    /\ f_stack' = <<>>
    /\ f_path' = <<>>
    /\ UNCHANGED <<f_pools, f_token_in, f_visited, f_paths>>
    /\ UNCHANGED finderOthers

FinderNext ==
    \/ FindStart
    \/ DfsSkipVisited
    \/ DfsUnsafe
    \/ DfsSafetyError
    \/ DfsTooDeep
    \/ DfsCycle
    \/ DfsSimError
    \/ DfsDescend
    \/ DfsReturn
    \/ FindReturn

SpecFinder == FinderInit /\ [][FinderNext]_vars

\* whether a/b >= c/d as exact ratios (b, d > 0), by comparing the integer parts
\* and then, as in Euclid's algorithm, the inverted fractional parts
RECURSIVE RatioGeq(_, _, _, _)
RatioGeq(a, b, c, d) ==
    LET q1 == a \div b
        q2 == c \div d
        r1 == a % b
        r2 == c % d
    IN  IF q1 # q2 THEN q1 > q2
        ELSE IF r2 = 0 THEN TRUE
        ELSE IF r1 = 0 THEN FALSE
        ELSE RatioGeq(d, r2, b, r1)

\* C5: every Path returned by find_profitable_paths has tokens.first() ==
\* tokens.last() == token_in and pools.len() >= 2.
C5_PathClosure ==
    f_status = "returned" =>
        \A i \in 1..Len(f_returned) :
            /\ f_returned[i].tokens[1] = f_token_in
            /\ f_returned[i].tokens[Len(f_returned[i].tokens)] = f_token_in
            /\ Len(f_returned[i].pools) >= 2

\* C6: every Path returned by find_profitable_paths has expected_profit >
\* gas_estimate and impact_score <= 300.
C6_ProfitFilter ==
    f_status = "returned" =>
        \A i \in 1..Len(f_returned) :
            /\ f_returned[i].expected_profit > f_returned[i].gas_estimate
            /\ f_returned[i].impact_score <= 300

\* a call returned at least two paths, one of them right at the impact limit
C6_Witness ==
    /\ f_status = "returned"
    /\ Len(f_returned) >= 2
    /\ \E i \in 1..Len(f_returned) : f_returned[i].impact_score = 300

\* C7: the returned list is sorted by profit/gas descending as exact ratios: a
\* path that precedes another has a ratio at least as large.
C7_SortedByExactRatio ==
    f_status = "returned" =>
        \A i, j \in 1..Len(f_returned) :
            i < j => RatioGeq(f_returned[i].expected_profit, f_returned[i].gas_estimate,
                              f_returned[j].expected_profit, f_returned[j].gas_estimate)

(***************************************************************************)
(* CrossChainFlashloan::validate_strategy and execute_strategy             *)
(* (strategies/cross_chain_flashloan.rs)                                   *)
(*                                                                         *)
(* A caller assembles the execution_steps of a strategy (AddStep) and then *)
(* calls execute_strategy, which validates the strategy and, when it is    *)
(* accepted, executes its steps one after the other.                       *)
(***************************************************************************)
\* bound: the number of execution steps of a strategy
MaxSteps == 4

\* the configuration the CrossChainFlashloan was built with: the keys of
\* aave_pools, providers and stargate_protocols (Ethereum 1, Base 8453)
AavePools == {1, 8453}

Providers == {1, 8453}

StargateChains == {1}

\* AaveProtocol::is_supported_asset: token 2 is not listed on chain 8453
is_supported_asset(chain, token) == ~(chain = 8453 /\ token = 2)

\* reserve_data.liquidity_index of the flash token on the source chain
LiquidityIndex == 3

\* block_timestamp()
Now == 100

\* provider.get_gas_price() and provider.get_balance(wallet) of a chain
GasPrice == 1

NativeBalance(chain_id) == IF chain_id = 1 THEN 1300000 ELSE 900000

\* ExecutionStep::FlashLoan
FlashLoan(chain_id, token, amount) ==
    [kind |-> "FlashLoan", chain_id |-> chain_id, token |-> token, amount |-> amount]

\* ExecutionStep::Bridge, with the protocol and deadline of its BridgeData
Bridge(from_chain, to_chain, token, amount, protocol, deadline) ==
    [kind |-> "Bridge", from_chain |-> from_chain, to_chain |-> to_chain, token |-> token,
     amount |-> amount, protocol |-> protocol, deadline |-> deadline]

\* ExecutionStep::Swap
Swap(chain_id, token_in, token_out, amount_in, min_amount_out, dex) ==
    [kind |-> "Swap", chain_id |-> chain_id, token_in |-> token_in, token_out |-> token_out,
     amount_in |-> amount_in, min_amount_out |-> min_amount_out, dex |-> dex]

\* ExecutionStep::AaveSupply
AaveSupply(chain_id, token, amount) ==
    [kind |-> "AaveSupply", chain_id |-> chain_id, token |-> token, amount |-> amount]

\* ExecutionStep::AaveBorrow
AaveBorrow(chain_id, token, amount) ==
    [kind |-> "AaveBorrow", chain_id |-> chain_id, token |-> token, amount |-> amount]

\* ExecutionStep::AaveRepay
AaveRepay(chain_id, token, amount) ==
    [kind |-> "AaveRepay", chain_id |-> chain_id, token |-> token, amount |-> amount]

\* the steps a strategy is assembled from: every variant of ExecutionStep, the
\* Aave and flash-loan steps on both chains, a bridge in each direction (Hop
\* with a live deadline, Stargate with an expired one) and a swap on Base
ExecutionSteps ==
    {FlashLoan(1, 1, 1), FlashLoan(8453, 1, 2),
     AaveBorrow(1, 1, 1), AaveBorrow(8453, 1, 1),
     AaveRepay(1, 1, 1), AaveRepay(8453, 1, 1),
     AaveSupply(1, 1, 1),
     Bridge(1, 8453, 1, 1, "Hop", Now),
     Bridge(8453, 1, 1, 1, "Stargate", Now - 1),
     Swap(8453, 1, 2, 1, 1, "UniswapV2")}

\* FlashloanStrategy
Strategy(source_chain, target_chain, flash_token, flash_amount, execution_steps) ==
    [source_chain |-> source_chain, target_chain |-> target_chain,
     flash_token |-> flash_token, flash_amount |-> flash_amount,
     execution_steps |-> execution_steps]

\* whether the node answers get_reserve_data, and get_gas_price and get_balance
RpcOk == [reserve_data |-> TRUE, gas |-> TRUE]

RpcNoReserveData == [reserve_data |-> FALSE, gas |-> TRUE]

RpcNoGas == [reserve_data |-> TRUE, gas |-> FALSE]

\* the calls of execute_strategy with the given execution steps, each a
\* strategy and the answers of the node: on Ethereum, from Ethereum to Base, on
\* Base, from a chain without Aave pool (BSC 56), with the token not listed on
\* Base, with a zero flash amount, with one that is the pool's liquidity, and
\* with a node that fails
Calls(execution_steps) ==
    {<<Strategy(1, 1, 1, 1, execution_steps), RpcOk>>,
     <<Strategy(1, 8453, 1, 1, execution_steps), RpcOk>>,
     <<Strategy(8453, 8453, 1, 1, execution_steps), RpcOk>>,
     <<Strategy(56, 1, 1, 1, execution_steps), RpcOk>>,
     <<Strategy(8453, 8453, 2, 1, execution_steps), RpcOk>>,
     <<Strategy(1, 1, 1, 0, execution_steps), RpcOk>>,
     <<Strategy(1, 1, 1, LiquidityIndex, execution_steps), RpcOk>>,
     <<Strategy(1, 1, 1, 1, execution_steps), RpcNoReserveData>>,
     <<Strategy(1, 1, 1, 1, execution_steps), RpcNoGas>>}

\* *map.entry(key).or_default() += delta
EntryAdd(map, key, delta) ==
    IF key \in DOMAIN map THEN [map EXCEPT ![key] = @ + delta]
    ELSE map @@ (key :> delta)

\* validate_chains, lines 432-461
validate_chains(strategy) ==
    LET has_bridge_step ==
            \E i \in DOMAIN strategy.execution_steps :
                strategy.execution_steps[i].kind = "Bridge"
    IN  /\ strategy.source_chain \in AavePools
        /\ strategy.target_chain \in AavePools
        /\ ~(strategy.source_chain # strategy.target_chain /\ ~has_bridge_step)

\* validate_token_pair, lines 760-767
validate_token_pair(chain_id, token_in, token_out) == ~(token_in = token_out)

\* validate_tokens, lines 477-509: whether the loop body returns Err on the step
tokens_step(step) ==
    CASE step.kind \in {"FlashLoan", "AaveSupply", "AaveBorrow", "AaveRepay"} ->
            \/ step.chain_id \notin AavePools
            \/ ~is_supported_asset(step.chain_id, step.token)
      [] step.kind = "Swap" ->
            ~validate_token_pair(step.chain_id, step.token_in, step.token_out)
      [] OTHER -> FALSE

\* validate_tokens, lines 463-512
validate_tokens(strategy) ==
    /\ strategy.source_chain \in AavePools
    /\ is_supported_asset(strategy.source_chain, strategy.flash_token)
    /\ \A i \in DOMAIN strategy.execution_steps : ~tokens_step(strategy.execution_steps[i])

\* validate_amounts, lines 537-560: the loop body on balance_map
amounts_step(balance_map, step) ==
    CASE step.kind = "FlashLoan" ->
            EntryAdd(balance_map, <<step.chain_id, step.token>>, step.amount)
      [] step.kind = "Bridge" ->
            EntryAdd(EntryAdd(balance_map, <<step.from_chain, step.token>>, 0 - step.amount),
                     <<step.to_chain, step.token>>, step.amount)
      [] step.kind = "Swap" ->
            EntryAdd(EntryAdd(balance_map, <<step.chain_id, step.token_in>>, 0 - step.amount_in),
                     <<step.chain_id, step.token_out>>, step.min_amount_out)
      [] step.kind = "AaveSupply" ->
            EntryAdd(balance_map, <<step.chain_id, step.token>>, 0 - step.amount)
      [] step.kind = "AaveBorrow" ->
            EntryAdd(balance_map, <<step.chain_id, step.token>>, step.amount)
      [] step.kind = "AaveRepay" ->
            EntryAdd(balance_map, <<step.chain_id, step.token>>, 0 - step.amount)

\* validate_amounts, lines 535-560: balance_map after the loop over the steps
RECURSIVE amounts_loop(_, _)
amounts_loop(balance_map, steps) ==
    IF steps = <<>> THEN balance_map
    ELSE amounts_loop(amounts_step(balance_map, Head(steps)), Tail(steps))

\* validate_amounts, lines 562-572: "Verify final balances"
final_balances_ok(balance_map) == \A k \in DOMAIN balance_map : ~(balance_map[k] < 0)

\* validate_amounts, lines 514-575
validate_amounts(strategy, rpc) ==
    /\ strategy.flash_amount # 0
    /\ strategy.source_chain \in AavePools
    /\ rpc.reserve_data
    /\ ~(strategy.flash_amount >= LiquidityIndex)
    /\ final_balances_ok(amounts_loop(<<>>, strategy.execution_steps))

\* validate_step_sequence, lines 578-581: the loop variables before the loop
sequence_start(strategy) ==
    [current_chain |-> strategy.source_chain,
     has_flashloan |-> FALSE,
     flashloan_repaid |-> FALSE,
     borrowed_amounts |-> <<>>,
     error |-> ""]

\* lines 619-629: the chain of a Swap or AaveSupply step must be the current one
other_step_Mut(seq, step) == seq

other_step(seq, step) ==
    IF step.chain_id # seq.current_chain
    THEN [seq EXCEPT !.error = "Invalid chain sequence in step"]
    ELSE seq

\* lines 585-593
flashloan_step_Mut(seq, step) ==
    IF step.chain_id # seq.current_chain
    THEN [seq EXCEPT !.error = "Invalid chain sequence in flash loan step"]
    ELSE [seq EXCEPT !.has_flashloan = TRUE]

flashloan_step(seq, step) ==
    IF seq.has_flashloan
    THEN [seq EXCEPT !.error = "Multiple flashloans not supported"]
    ELSE IF step.chain_id # seq.current_chain
    THEN [seq EXCEPT !.error = "Invalid chain sequence in flash loan step"]
    ELSE [seq EXCEPT !.has_flashloan = TRUE]

\* validate_step_sequence, lines 584-630: the loop body
sequence_step(seq, strategy, step) ==
    CASE step.kind = "FlashLoan" -> flashloan_step(seq, step)
      [] step.kind = "Bridge" ->
            IF step.from_chain # seq.current_chain
            THEN [seq EXCEPT !.error = "Invalid source chain in bridge step"]
            ELSE [seq EXCEPT !.current_chain = step.to_chain]
      [] step.kind = "AaveBorrow" ->
            IF step.chain_id # seq.current_chain
            THEN [seq EXCEPT !.error = "Invalid chain sequence in borrow step"]
            ELSE [seq EXCEPT !.borrowed_amounts =
                        EntryAdd(@, <<step.chain_id, step.token>>, step.amount)]
      [] step.kind = "AaveRepay" ->
            IF step.chain_id # seq.current_chain
            THEN [seq EXCEPT !.error = "Invalid chain sequence in repay step"]
            ELSE IF <<step.chain_id, step.token>> \notin DOMAIN seq.borrowed_amounts
            THEN [seq EXCEPT !.error = "Repaying non-borrowed token"]
            ELSE IF step.amount > seq.borrowed_amounts[<<step.chain_id, step.token>>]
            THEN [seq EXCEPT !.error = "Repay amount exceeds borrowed amount"]
            ELSE IF step.token = strategy.flash_token /\ step.chain_id = strategy.source_chain
            THEN [seq EXCEPT !.flashloan_repaid = TRUE]
            ELSE seq
      [] OTHER -> other_step(seq, step)

\* validate_step_sequence, lines 583-631: the loop; a return of Err ends it
RECURSIVE sequence_loop(_, _, _)
sequence_loop(seq, strategy, steps) ==
    IF steps = <<>> \/ seq.error # "" THEN seq
    ELSE sequence_loop(sequence_step(seq, strategy, Head(steps)), strategy, Tail(steps))

\* validate_step_sequence, lines 633-641: "Verify flashloan was taken and repaid"
sequence_end(seq) == seq.has_flashloan /\ seq.flashloan_repaid

\* validate_step_sequence, lines 577-642
validate_step_sequence(strategy) ==
    LET seq == sequence_loop(sequence_start(strategy), strategy, strategy.execution_steps)
    IN  seq.error = "" /\ sequence_end(seq)

\* is_stargate_supported, lines 769-773
is_stargate_supported(from_chain, to_chain) ==
    from_chain \in StargateChains /\ to_chain \in StargateChains

\* is_hop_supported, lines 775-778
is_hop_supported(from_chain, to_chain) == TRUE

\* validate_bridges, lines 646-675: whether the loop body returns Err on the step
bridges_step(step) ==
    /\ step.kind = "Bridge"
    /\ \/ step.protocol = "Stargate" /\ ~is_stargate_supported(step.from_chain, step.to_chain)
       \/ step.protocol = "Hop" /\ ~is_hop_supported(step.from_chain, step.to_chain)
       \/ step.deadline < Now

\* validate_bridges, lines 644-678
validate_bridges(strategy) ==
    \A i \in DOMAIN strategy.execution_steps : ~bridges_step(strategy.execution_steps[i])

\* is_uniswap_v2_supported, lines 780-783
is_uniswap_v2_supported(chain_id) == chain_id \in {1, 137, 42161, 10}

\* is_uniswap_v3_supported, lines 785-788
is_uniswap_v3_supported(chain_id) == chain_id \in {1, 137, 42161, 10, 8453}

\* validate_dexes, lines 682-703: whether the loop body returns Err on the step
dexes_step(step) ==
    /\ step.kind = "Swap"
    /\ \/ step.dex = "UniswapV2" /\ ~is_uniswap_v2_supported(step.chain_id)
       \/ step.dex = "UniswapV3" /\ ~is_uniswap_v3_supported(step.chain_id)

\* validate_dexes, lines 680-706
validate_dexes(strategy) ==
    \A i \in DOMAIN strategy.execution_steps : ~dexes_step(strategy.execution_steps[i])

\* validate_gas_requirements, lines 717-733: the gas of a step on a chain
step_gas(step, chain_id) ==
    CASE step.kind = "FlashLoan" /\ step.chain_id = chain_id -> 300000
      [] step.kind = "Bridge" /\ step.from_chain = chain_id -> 500000
      [] step.kind = "Swap" /\ step.chain_id = chain_id -> 200000
      [] step.kind \in {"AaveSupply", "AaveBorrow", "AaveRepay"} /\ step.chain_id = chain_id -> 250000
      [] OTHER -> 0

\* validate_gas_requirements, lines 715-735: total_gas of the steps on a chain
RECURSIVE total_gas(_, _)
total_gas(steps, chain_id) ==
    IF steps = <<>> THEN 0
    ELSE step_gas(Head(steps), chain_id) + total_gas(Tail(steps), chain_id)

\* validate_gas_requirements, lines 708-758
validate_gas_requirements(strategy, rpc) ==
    \A chain_id \in Providers :
        /\ rpc.gas
        /\ ~(NativeBalance(chain_id) < total_gas(strategy.execution_steps, chain_id) * GasPrice)

\* the checks of validate_strategy, lines 408-427, in program order
CheckOrder == <<"chains", "tokens", "amounts", "sequence", "bridges", "dexes", "gas">>

\* whether a check of validate_strategy answers Ok
CheckOk(check, strategy, rpc) ==
    CASE check = "chains" -> validate_chains(strategy)
      [] check = "tokens" -> validate_tokens(strategy)
      [] check = "amounts" -> validate_amounts(strategy, rpc)
      [] check = "sequence" -> validate_step_sequence(strategy)
      [] check = "bridges" -> validate_bridges(strategy)
      [] check = "dexes" -> validate_dexes(strategy)
      [] check = "gas" -> validate_gas_requirements(strategy, rpc)

\* the `?` after each check: validate_strategy returns the Err of a check
\* that did not answer Ok
Propagates_Mut(ok) == FALSE

Propagates(ok) == ~ok

\* validate_strategy from its i-th statement on: the checks evaluated, and
\* "ok" or the check whose Err is returned
RECURSIVE validate_from(_, _, _)
validate_from(i, strategy, rpc) ==
    IF i > Len(CheckOrder) THEN [checked |-> CheckOrder, result |-> "ok"]
    ELSE IF Propagates(CheckOk(CheckOrder[i], strategy, rpc))
    THEN [checked |-> SubSeq(CheckOrder, 1, i), result |-> CheckOrder[i]]
    ELSE validate_from(i + 1, strategy, rpc)

\* validate_strategy, lines 407-430
validate_strategy(strategy, rpc) == validate_from(1, strategy, rpc)

\* no strategy has been assembled yet
PlanInit ==
    /\ p_plan = <<>>
    /\ p_strategy = <<>>
    /\ p_rpc = <<>>
    /\ p_pc = "build"
    /\ p_checked = <<>>
    /\ p_result = "none"
    /\ p_executed = 0
    /\ PlanAlone

\* the caller gives the strategy one more execution step
AddStep ==
    /\ p_pc = "build"
    /\ Len(p_plan) < MaxSteps
    /\ \E step \in ExecutionSteps : p_plan' = Append(p_plan, step)
    /\ UNCHANGED <<p_strategy, p_rpc, p_pc, p_checked, p_result, p_executed>>
    /\ UNCHANGED planOthers

\* execute_strategy(strategy), lines 36-42: validate_strategy(&strategy)?
ExecuteStrategy ==
    /\ p_pc = "build"
    /\ \E call \in Calls(p_plan) :
        LET validated == validate_strategy(call[1], call[2])
        IN  /\ p_strategy' = call[1]
            /\ p_rpc' = call[2]
            /\ p_checked' = validated.checked
            /\ p_result' = validated.result
            /\ p_pc' = IF validated.result = "ok" THEN "execute" ELSE "error"
    /\ UNCHANGED <<p_plan, p_executed>>
    /\ UNCHANGED planOthers

\* execute_steps, lines 60-92: the next step is executed and handle_step_result
\* answers Ok (there is a receipt)
ExecStepOk ==
    /\ p_pc = "execute"
    /\ p_executed < Len(p_strategy.execution_steps)
    /\ p_executed' = p_executed + 1
    /\ UNCHANGED <<p_plan, p_strategy, p_rpc, p_pc, p_checked, p_result>>
    /\ UNCHANGED planOthers

\* the next step is executed and fails: handle_step_result answers Err, lines
\* 817-828, and `?` ends execute_steps
ExecStepErr ==
    /\ p_pc = "execute"
    /\ p_executed < Len(p_strategy.execution_steps)
    /\ p_executed' = p_executed + 1
    /\ p_pc' = "error"
    /\ UNCHANGED <<p_plan, p_strategy, p_rpc, p_checked, p_result>>
    /\ UNCHANGED planOthers

\* lines 94-100: every step has been executed
ExecFinish ==
    /\ p_pc = "execute"
    /\ p_executed = Len(p_strategy.execution_steps)
    /\ p_pc' = "done"
    /\ UNCHANGED <<p_plan, p_strategy, p_rpc, p_checked, p_result, p_executed>>
    /\ UNCHANGED planOthers

PlanNext ==
    \/ AddStep
    \/ ExecuteStrategy
    \/ ExecStepOk
    \/ ExecStepErr
    \/ ExecFinish

SpecPlan == PlanInit /\ [][PlanNext]_vars

\* the balance map of validate_amounts after the first k steps
BalancesAfter(steps, k) == amounts_loop(<<>>, SubSeq(steps, 1, k))

\* the balance of a (chain, token) key, 0 when the map has no entry for it
BalanceOf(balance_map, key) == IF key \in DOMAIN balance_map THEN balance_map[key] ELSE 0

\* C1: for every strategy accepted by validate_strategy, every balance of the
\* running balance map is non-negative after every prefix of the steps, not
\* only after the last step.
C1_RunningBalance ==
    p_result = "ok" =>
        \A k \in 0..Len(p_strategy.execution_steps) :
            LET balance_map == BalancesAfter(p_strategy.execution_steps, k)
            IN  \A key \in DOMAIN balance_map : balance_map[key] >= 0

\* C2: every strategy accepted by validate_strategy contains exactly one
\* FlashLoan step, and the balance of (source_chain, flash_token) after the
\* last step is >= 0.
C2_OneFlashLoan ==
    p_result = "ok" =>
        LET steps == p_strategy.execution_steps
        IN  /\ Cardinality({i \in DOMAIN steps : steps[i].kind = "FlashLoan"}) = 1
            /\ BalanceOf(BalancesAfter(steps, Len(steps)),
                         <<p_strategy.source_chain, p_strategy.flash_token>>) >= 0

\* an accepted strategy has been executed to the end, and the flash token's
\* balance on the source chain is exactly 0 after its last step
C2_Witness ==
    /\ p_result = "ok"
    /\ p_pc = "done"
    /\ BalanceOf(BalancesAfter(p_strategy.execution_steps, Len(p_strategy.execution_steps)),
                 <<p_strategy.source_chain, p_strategy.flash_token>>) = 0

\* C4: validate_strategy evaluates its checks in the order chains, tokens,
\* amounts, sequence, bridges, dexes, gas; every check before the last
\* evaluated one answered Ok; an error is the error of the last evaluated
\* check, which failed, and then no step is executed; the strategy is accepted
\* only when all seven checks were evaluated and answered Ok.
C4_ChecksInOrder ==
    p_pc # "build" =>
        /\ Len(p_checked) >= 1
        /\ p_checked = SubSeq(CheckOrder, 1, Len(p_checked))
        /\ \A i \in 1..(Len(p_checked) - 1) : CheckOk(p_checked[i], p_strategy, p_rpc)
        /\ p_result # "ok" =>
                /\ p_result = p_checked[Len(p_checked)]
                /\ ~CheckOk(p_result, p_strategy, p_rpc)
                /\ p_pc = "error"
                /\ p_executed = 0
        /\ p_result = "ok" =>
                /\ p_checked = CheckOrder
                /\ \A i \in DOMAIN CheckOrder : CheckOk(CheckOrder[i], p_strategy, p_rpc)

\* validate_strategy returned the error of the bridges check after four checks
\* answered Ok; the gas check would have failed too but was not evaluated
C4_Witness ==
    /\ p_result = "bridges"
    /\ p_checked = SubSeq(CheckOrder, 1, 5)
    /\ ~CheckOk("gas", p_strategy, p_rpc)
    /\ p_executed = 0

(***************************************************************************)
(* validate_step_sequence as the state machine of its loop: each action is *)
(* one iteration of `for step in &strategy.execution_steps` on a step of   *)
(* any shape, so that strategies longer and more varied than those of      *)
(* SpecPlan are covered. q_walk_chain and q_off_chain follow the steps     *)
(* independently of the validator's own variables.                         *)
(***************************************************************************)
\* bound: the number of steps the loop takes
MaxSeqSteps == 5

SeqChains == {1, 8453}

SeqTokens == {1, 2}

SeqAmounts == {1, 2}

\* the steps of the loop: what validate_step_sequence reads of a step is its
\* variant, its chains and, of AaveBorrow and AaveRepay, its token and amount
SequenceSteps ==
    {FlashLoan(c, 1, 1) : c \in SeqChains}
    \cup {Bridge(cs[1], cs[2], 1, 1, "Hop", Now) : cs \in SeqChains \X SeqChains}
    \cup {Swap(c, 1, 2, 1, 1, "UniswapV2") : c \in SeqChains}
    \cup {AaveSupply(c, 1, 1) : c \in SeqChains}
    \cup {AaveBorrow(x[1], x[2], x[3]) : x \in SeqChains \X SeqTokens \X SeqAmounts}
    \cup {AaveRepay(x[1], x[2], x[3]) : x \in SeqChains \X SeqTokens \X SeqAmounts}

\* the chain a step runs on
StepChain(step) == IF step.kind = "Bridge" THEN step.from_chain ELSE step.chain_id

\* validate_step_sequence is called, lines 578-581
SeqInit ==
    /\ q_strategy \in [source_chain : SeqChains, flash_token : SeqTokens]
    /\ q_seq = sequence_start(q_strategy)
    /\ q_pc = "loop"
    /\ q_n = 0
    /\ q_walk_chain = q_strategy.source_chain
    /\ q_off_chain = FALSE
    /\ SeqAlone

\* one iteration of the loop, lines 583-631
SeqLoopStep ==
    /\ q_pc = "loop"
    /\ q_n < MaxSeqSteps
    /\ \E step \in SequenceSteps :
        LET seq == sequence_step(q_seq, q_strategy, step)
        IN  /\ q_seq' = seq
            /\ q_pc' = IF seq.error # "" THEN "error" ELSE "loop"
            /\ q_walk_chain' = IF step.kind = "Bridge" THEN step.to_chain ELSE q_walk_chain
            /\ q_off_chain' = (q_off_chain \/ StepChain(step) # q_walk_chain)
    /\ q_n' = q_n + 1
    /\ UNCHANGED q_strategy
    /\ UNCHANGED seqOthers

\* the loop is over, lines 633-641
SeqLoopEnd ==
    /\ q_pc = "loop"
    /\ q_pc' = IF sequence_end(q_seq) THEN "ok" ELSE "error"
    /\ UNCHANGED <<q_strategy, q_seq, q_n, q_walk_chain, q_off_chain>>
    /\ UNCHANGED seqOthers

SeqNext ==
    \/ SeqLoopStep
    \/ SeqLoopEnd

SpecSequence == SeqInit /\ [][SeqNext]_vars

\* C3: for every strategy accepted by validate_step_sequence, walking the
\* steps from source_chain, every FlashLoan, Swap, AaveSupply, AaveBorrow and
\* AaveRepay step is on the current chain, every Bridge step leaves from the
\* current chain, and a Bridge step makes its to_chain the current chain.
C3_ChainWalk ==
    q_pc = "ok" => ~q_off_chain /\ q_seq.current_chain = q_walk_chain

\* an accepted strategy bridges from Ethereum to Base and borrows there
C3_Witness ==
    /\ q_pc = "ok"
    /\ q_strategy.source_chain = 1
    /\ q_walk_chain = 8453
    /\ <<8453, 2>> \in DOMAIN q_seq.borrowed_amounts

(***************************************************************************)
(* event_handler (strategy.rs): the reserve cache on Event::Block. The     *)
(* rest of the arm (spreads, gas cost, bundles) only reads `reserves`.     *)
(***************************************************************************)
\* the pools of the non-blacklisted paths, which are the keys of `reserves`
\* (lines 42-55), and the pools a block can touch
TrackedPools == {201, 202}

ChainPools == {201, 202, 203}

\* Reserve values
ReserveValues == {[reserve0 |-> 1, reserve1 |-> 1], [reserve0 |-> 2, reserve1 |-> 3]}

\* the maps from some of the pools of a set to Reserve values
PartialMaps(pools) == UNION {[touched -> ReserveValues] : touched \in SUBSET pools}

\* how many times the Block event of the block is handled
MaxBlockEvents == 2

\* lines 76: reserves.insert(address, reserve)
reserves_insert_Mut(old, reserve) ==
    [reserve0 |-> old.reserve0 + reserve.reserve0, reserve1 |-> old.reserve1 + reserve.reserve1]

reserves_insert(old, reserve) == reserve

\* lines 74-79: the cache after the loop over touched_reserves
update_reserves(reserves, touched_reserves) ==
    [address \in DOMAIN reserves |->
        IF address \in DOMAIN touched_reserves
        THEN reserves_insert(reserves[address], touched_reserves[address])
        ELSE reserves[address]]

\* lines 73-79: touched_pools after the loop
touched_pools(reserves, touched_reserves) == DOMAIN touched_reserves \cap DOMAIN reserves

\* lines 54-57: the cache is loaded and the handler subscribes
ReservesInit ==
    /\ r_reserves \in [TrackedPools -> ReserveValues]
    /\ r_block \in PartialMaps(ChainPools)
    /\ r_applied = <<>>
    /\ r_touched = {}
    /\ r_history = <<>>
    /\ ReservesAlone

\* lines 62-79: Event::Block, get_touched_pool_reserves answers Ok(response)
BlockEvent ==
    /\ Len(r_applied) < MaxBlockEvents
    /\ r_reserves' = update_reserves(r_reserves, r_block)
    /\ r_touched' = touched_pools(r_reserves, r_block)
    /\ r_applied' = Append(r_applied, r_block)
    /\ r_history' = Append(r_history, r_reserves')
    /\ UNCHANGED r_block
    /\ UNCHANGED reservesOthers

\* lines 62-79: Event::Block, get_touched_pool_reserves answers Err:
\* touched_reserves is HashMap::new()
BlockEventRpcError ==
    /\ Len(r_applied) < MaxBlockEvents
    /\ r_reserves' = update_reserves(r_reserves, <<>>)
    /\ r_touched' = touched_pools(r_reserves, <<>>)
    /\ r_applied' = Append(r_applied, <<>>)
    /\ r_history' = Append(r_history, r_reserves')
    /\ UNCHANGED r_block
    /\ UNCHANGED reservesOthers

ReservesNext ==
    \/ BlockEvent
    \/ BlockEventRpcError

SpecReserves == ReservesInit /\ [][ReservesNext]_vars

\* C11: applying the same touched-pool reserve set to the reserve cache twice
\* leaves the cache (keys and reserve values) as applying it once left it.
C11_IdempotentUpdate ==
    \A i \in DOMAIN r_applied :
        (i > 1 /\ r_applied[i] = r_applied[i - 1]) => r_history[i] = r_history[i - 1]

\* the block's set was applied twice, it touched a tracked pool whose reserves it
\* changed and a pool that is not tracked
C11_Witness ==
    /\ Len(r_applied) = 2
    /\ r_applied[1] = r_block
    /\ r_applied[2] = r_block
    /\ 203 \in DOMAIN r_block
    /\ r_touched = {201}
    /\ r_history[1][201] = [reserve0 |-> 2, reserve1 |-> 3]
    /\ DOMAIN r_reserves = TrackedPools

(***************************************************************************)
(* TWAPManager::get_v3_twap (security/twap/mod.rs)                         *)
(***************************************************************************)
MIN_TWAP_SAMPLES == 3

MIN_TWAP_CARDINALITY == 50

MAX_TWAP_GAPS == 2

MAX_TICK_MOVEMENT == 1000

\* get_twap_observation_times, lines 127-138
get_twap_observation_times ==
    <<30 * 60, 25 * 60, 20 * 60, 15 * 60, 10 * 60, 5 * 60, 0>>

\* the tick cumulatives the pool answers: flat, slowly rising, and with jumps
\* larger than MAX_TICK_MOVEMENT
TickSeries ==
    {<<0, 0, 0, 0, 0, 0, 0>>,
     <<0, 100, 200, 300, 400, 500, 600>>,
     <<0, 2000, 2100, 2200, 4400, 4500, 4600>>}

\* what the pool contract answers to get_v3_twap
PoolAnswers ==
    [rpc_ok : BOOLEAN, sqrt_price_is_zero : BOOLEAN,
     token : {"token0", "token1", "other"},
     ticks : TickSeries,
     initialized : [1..Len(get_twap_observation_times) -> BOOLEAN],
     cardinality : {MIN_TWAP_CARDINALITY - 1, MIN_TWAP_CARDINALITY}]

TwapResult(kind, price, samples) == [kind |-> kind, price |-> price, samples |-> samples]

\* line 142: the number of initialised observations
InitialisedCount(initialized) == Cardinality({i \in DOMAIN initialized : initialized[i]})

\* validate_observations, lines 141-159
validate_observations(initialized) ==
    LET valid_count == InitialisedCount(initialized)
        max_gap == Cardinality({i \in 1..(Len(initialized) - 1) :
                                    ~initialized[i] \/ ~initialized[i + 1]})
    IN  IF valid_count < MIN_TWAP_SAMPLES THEN FALSE
        ELSE IF max_gap > MAX_TWAP_GAPS THEN FALSE
        ELSE TRUE

\* validate_tick_movement, lines 162-168
validate_tick_movement(tick_diff) ==
    ~((IF tick_diff < 0 THEN 0 - tick_diff ELSE tick_diff) > MAX_TICK_MOVEMENT)

\* whether the u32 subtraction a - b underflows
u32_underflow(a, b) == a < b

\* the u32 value of a.wrapping_sub(b), for |a - b| < 2^16, as its two 16-bit
\* halves: a - b when a >= b, else 2^32 + a - b = (2^16 - 1) * 2^16 + (2^16 + a - b)
u32_wrapping_sub(a, b) ==
    IF u32_underflow(a, b)
    THEN [hi |-> 2 ^ 16 - 1, lo |-> 2 ^ 16 + a - b]
    ELSE [hi |-> (a - b) \div 2 ^ 16, lo |-> (a - b) % 2 ^ 16]

\* line 88: time_diff = seconds_ago[i+1] - seconds_ago[i] of interval i, a
\* panic in a debug build when the subtraction underflows
time_diff(seconds_ago, i, build) ==
    IF build = "debug" /\ u32_underflow(seconds_ago[i + 1], seconds_ago[i])
    THEN Panic
    ELSE u32_wrapping_sub(seconds_ago[i + 1], seconds_ago[i])

\* calculate_twap, lines 81-110, for the observation times of this program:
\* seconds_ago decreases, so seconds_ago[i+1] - seconds_ago[i] underflows u32.
\* A debug build panics there; a release build wraps to 2^32 - 300, tick_avg
\* is 0 (|tick_diff| <= MAX_TICK_MOVEMENT), tick_to_sqrt_price(0) is 2^96, and
\* the inverted price of token1 is (1u128 << 192) / 2^96 = 2^64 / 2^96 = 0.
\* Prices are in units of 2^96.
calculate_twap(token, ticks, initialized, seconds_ago, build) ==
    LET both == {i \in 1..(Len(ticks) - 1) : initialized[i] /\ initialized[i + 1]}
        underflow == {i \in both : time_diff(seconds_ago, i, build) = Panic}
        valid == {i \in both : validate_tick_movement(ticks[i + 1] - ticks[i])}
        valid_samples == Cardinality(valid)
        adjusted_price == IF token = "token0" THEN 1 ELSE 0
        twap_sum == valid_samples * adjusted_price
    IN  IF build = "debug" /\ underflow # {} THEN TwapResult("Panic", 0, 0)
        ELSE IF valid_samples < MIN_TWAP_SAMPLES THEN TwapResult("None", 0, 0)
        ELSE TwapResult("Some", twap_sum \div valid_samples, valid_samples)

\* get_v3_twap, lines 24-66
get_v3_twap_Mut(pool, build) ==
    IF ~pool.rpc_ok THEN TwapResult("Err", 0, 0)
    ELSE IF pool.sqrt_price_is_zero THEN TwapResult("None", 0, 0)
    ELSE IF pool.token = "other" THEN TwapResult("Err", 0, 0)
    ELSE TwapResult("Some", 1, InitialisedCount(pool.initialized))

get_v3_twap(pool, build) ==
    IF ~pool.rpc_ok THEN TwapResult("Err", 0, 0)
    ELSE IF pool.sqrt_price_is_zero THEN TwapResult("None", 0, 0)
    ELSE IF pool.token = "other" THEN TwapResult("Err", 0, 0)
    ELSE IF ~validate_observations(pool.initialized) THEN TwapResult("None", 0, 0)
    ELSE IF pool.cardinality < MIN_TWAP_CARDINALITY THEN TwapResult("None", 0, 0)
    ELSE calculate_twap(pool.token, pool.ticks, pool.initialized,
                        get_twap_observation_times, build)

TwapInit ==
    /\ t_pool \in PoolAnswers
    /\ t_build \in {"debug", "release"}
    /\ t_called = FALSE
    /\ t_result = <<>>
    /\ TwapAlone

\* get_v3_twap(pool, token) is called and returns
GetV3Twap ==
    /\ ~t_called
    /\ t_called' = TRUE
    /\ t_result' = get_v3_twap(t_pool, t_build)
    /\ UNCHANGED <<t_pool, t_build>>
    /\ UNCHANGED twapOthers

TwapNext == GetV3Twap

SpecTwap == TwapInit /\ [][TwapNext]_vars

\* C12: get_v3_twap returns no TWAP value whenever fewer than 3 of the 7
\* observations are initialised.
C12_TwapRejection ==
    (t_called /\ InitialisedCount(t_pool.initialized) < 3) => t_result.kind # "Some"

\* two of seven observations are initialised on a live pool with enough
\* cardinality, and get_v3_twap answered Ok(None)
C12_Witness ==
    /\ t_called
    /\ Len(t_pool.initialized) = 7
    /\ InitialisedCount(t_pool.initialized) = 2
    /\ t_pool.initialized[1] /\ t_pool.initialized[2]
    /\ t_pool.rpc_ok /\ ~t_pool.sqrt_price_is_zero /\ t_pool.token = "token0"
    /\ t_pool.cardinality >= MIN_TWAP_CARDINALITY
    /\ t_build = "release"
    /\ t_result.kind = "None"

(***************************************************************************)
(* SecurityManager::get_price and get_dex_prices (security/mod.rs), with   *)
(* PriceManager (security/price/mod.rs). Weights are in tenths.            *)
(***************************************************************************)
\* bound: the number of live pools of the token
MaxSources == 3

DexTypes == {"UniswapV2", "UniswapV3", "Balancer", "Curve"}

QuotePrices == {100, 101, 1000}

\* the pools find_all_pools answers, in its order, with the quote of each
RECURSIVE SourceLists(_)
SourceLists(n) ==
    IF n = 0 THEN {<<>>}
    ELSE LET shorter == SourceLists(n - 1)
         IN  shorter \cup
             {Append(l, [dex |-> d, price |-> q]) :
                l \in {x \in shorter : Len(x) = n - 1}, d \in DexTypes, q \in QuotePrices}

\* PriceSource
PriceSource(price, weight, source) == [price |-> price, weight |-> weight, source |-> source]

\* the weight of the PriceSource that get_dex_prices pushes for a pool: 2 for
\* Uniswap V3 (line 486) and Curve (567), 1 for Balancer (520) and Uniswap V2
dex_weight(dex) == IF dex \in {"UniswapV3", "Curve"} THEN 20 ELSE 10

\* get_dex_prices, lines 402-436: one PriceSource per live pool, in pool order
get_dex_prices(sources) ==
    [i \in DOMAIN sources |->
        PriceSource(sources[i].price, dex_weight(sources[i].dex), sources[i].dex)]

\* PriceManager::get_uniswap_v3_price, price/mod.rs lines 29-57, on a Uniswap V3
\* pool with a non-zero sqrt price; weight 1.0
get_uniswap_v3_price(pool) == Some(PriceSource(pool.price, 10, "UniswapV3"))

\* PriceManager::get_balancer_price, price/mod.rs lines 60-87, on a Balancer
\* pool; weight 0.8
get_balancer_price(pool) == Some(PriceSource(pool.price, 8, "Balancer"))

\* get_price, lines 252-260: v3 is what get_uniswap_v3_price answered (an Err
\* or an Option), balancer what get_balancer_price answers if it is called
get_price(v3, balancer) ==
    IF IsErr(v3) THEN v3
    ELSE IF IsSome(v3) THEN v3
    ELSE balancer

\* what slot0() answers on a pool that is not a Uniswap V3 pool: the call
\* fails, or answers a zero sqrt price
NotV3Answers == {Err("slot0"), None}

OracleInit ==
    /\ o_sources \in SourceLists(MaxSources) \ {<<>>}
    /\ o_op = "none"
    /\ o_pool = 0
    /\ o_result = <<>>
    /\ OracleAlone

\* get_price(pool, token) is called with one of the token's pools
GetPrice ==
    /\ o_op = "none"
    /\ \E i \in DOMAIN o_sources :
        LET pool == o_sources[i]
        IN  /\ o_pool' = i
            /\ \E v3 \in (IF pool.dex = "UniswapV3" THEN {get_uniswap_v3_price(pool)}
                          ELSE NotV3Answers) :
                o_result' = get_price(v3, IF pool.dex = "Balancer"
                                          THEN get_balancer_price(pool)
                                          ELSE Err("get_vault"))
    /\ o_op' = "get_price"
    /\ UNCHANGED o_sources
    /\ UNCHANGED oracleOthers

\* get_dex_prices(token) is called
GetDexPrices ==
    /\ o_op = "none"
    /\ o_op' = "get_dex_prices"
    /\ o_result' = get_dex_prices(o_sources)
    /\ UNCHANGED <<o_sources, o_pool>>
    /\ UNCHANGED oracleOthers

OracleNext ==
    \/ GetPrice
    \/ GetDexPrices

SpecOracle == OracleInit /\ [][OracleNext]_vars

\* the sum of the weights of the quotes with a price of at most p
RECURSIVE WeightUpTo(_, _)
WeightUpTo(quotes, p) ==
    IF quotes = <<>> THEN 0
    ELSE (IF Head(quotes).price <= p THEN Head(quotes).weight ELSE 0)
         + WeightUpTo(Tail(quotes), p)

\* the weight-weighted median: the lowest price up to which at least half of
\* the total weight lies
WeightedMedian(quotes) ==
    LET prices == {quotes[i].price : i \in DOMAIN quotes}
        total == WeightUpTo(quotes, 1000000)
    IN  CHOOSE p \in prices :
            /\ 2 * WeightUpTo(quotes, p) >= total
            /\ \A q \in prices : q < p => 2 * WeightUpTo(quotes, q) < total

\* C13: the spot price returned for a token is the weight-weighted median of
\* the quotes of all its live sources (101 for quotes 100, 101, 1000 with
\* weights 1, 2, 1).
C13_WeightedMedian ==
    (o_op = "get_price" /\ IsSome(o_result)) =>
        o_result[1].price = WeightedMedian(get_dex_prices(o_sources))

(***************************************************************************)
(* TokenManager::validate_token (security/token/mod.rs). Volumes are in    *)
(* USD (units of 10^18 of the U256 value).                                 *)
(***************************************************************************)
\* TokenManager::new, lines 16-22
min_holder_count == 100

min_volume_24h == 1000

\* max_concentration = 0.5, as the fraction 1/2
max_concentration_num == 1

max_concentration_den == 2

\* what the data sources answer about a token, and whether the token is on
\* the blacklist of the SecurityConfig
TokenData ==
    [rpc_ok : BOOLEAN, blacklisted : BOOLEAN,
     volume_24h : {999, 1000, 50000, 99999, 100000},
     unique_holders : {99, 100},
     top_holders_balance : {0, 50, 51},
     total_supply : {0, 100},
     is_verified : BOOLEAN]

\* TokenValidation
TokenValidation(is_valid, reason) == [is_valid |-> is_valid, reason |-> reason]

\* lines 55-56: concentration > self.max_concentration in f64; x / 0.0 is
\* +inf for x > 0 and NaN for x = 0, and NaN > 0.5 is false
concentration_exceeds(top_holders_balance, total_supply) ==
    IF total_supply = 0 THEN top_holders_balance > 0
    ELSE top_holders_balance * max_concentration_den > total_supply * max_concentration_num

\* validate_token, lines 25-78
validate_token(token) ==
    IF ~token.rpc_ok THEN Err("rpc")
    ELSE IF token.volume_24h < min_volume_24h
    THEN Ok(TokenValidation(FALSE, "Insufficient 24h volume"))
    ELSE IF token.unique_holders < min_holder_count
    THEN Ok(TokenValidation(FALSE, "Insufficient unique holders"))
    ELSE IF concentration_exceeds(token.top_holders_balance, token.total_supply)
    THEN Ok(TokenValidation(FALSE, "High holder concentration"))
    ELSE IF ~token.is_verified
    THEN Ok(TokenValidation(FALSE, "Contract not verified"))
    ELSE Ok(TokenValidation(TRUE, "All checks passed"))

TokenInit ==
    /\ v_token \in TokenData
    /\ v_called = FALSE
    /\ v_result = <<>>
    /\ TokenAlone

\* validate_token(token) is called and returns
ValidateToken ==
    /\ ~v_called
    /\ v_called' = TRUE
    /\ v_result' = validate_token(v_token)
    /\ UNCHANGED v_token
    /\ UNCHANGED tokenOthers

TokenNext == ValidateToken

SpecToken == TokenInit /\ [][TokenNext]_vars

\* C14: validate_token reports a token valid only if it is not blacklisted,
\* its 24h volume is at least 100 000 USD, it has at least 100 unique holders,
\* the top-10 holders hold at most 50% and its contract is verified; a token
\* with a 24h volume of 50 000 USD is reported invalid.
C14_TokenValidation ==
    (v_called /\ IsOk(v_result) /\ v_result[2].is_valid) =>
        /\ ~v_token.blacklisted
        /\ v_token.volume_24h >= 100000
        /\ v_token.unique_holders >= 100
        /\ v_token.top_holders_balance * 2 <= v_token.total_supply
        /\ v_token.is_verified

(***************************************************************************)
(* ArbitrageManager::execute_arbitrage and validate_execution              *)
(* (flashbot/arbitrage.rs). U256 is modelled with the width U256_BITS.     *)
(***************************************************************************)
MaxPools == 2

U256_BITS == 16

U256_MAX == 2 ^ U256_BITS - 1

\* U256::saturating_mul
saturating_mul(a, b) == IF a * b > U256_MAX THEN U256_MAX ELSE a * b

\* ExecutionConfig::max_gas_price of the run
max_gas_price == 50

\* PoolInfo::liquidity as recorded in the opportunity
RecordedLiquidity == {1, 100, 700}

\* the answers of dex_manager.get_pool_liquidity
LiquidityAnswers == {Err("rpc")} \cup {Ok(v) : v \in {0, 94, 95, 660}}

\* ArbitrageOpportunity::expected_profit
ExpectedProfits == {1, 10}

\* the answers of simulate_arbitrage
ProfitAnswers == {Err("rpc")} \cup {Ok(v) : v \in {0, 8, 9}}

\* the answers of get_current_gas_price
GasPriceAnswers == {Err("rpc")} \cup {Ok(v) : v \in {max_gas_price, max_gas_price + 1}}

\* lines 193-198: the loop over op.pools from pool i on; None when no pool
\* makes it return
check_pools(pools, answers, i) ==
    LET failing == {k \in i..Len(pools) :
                       \/ IsErr(answers[k])
                       \/ answers[k][2] < saturating_mul(pools[k], 95) \div 100}
    IN  IF failing = {} THEN None
        ELSE LET k == CHOOSE x \in failing : \A y \in failing : x <= y
             IN  IF IsErr(answers[k]) THEN Some(answers[k])
                 ELSE Some(Err("Pool liquidity decreased"))

\* lines 201-204
check_profit(expected_profit, answer) ==
    IF IsErr(answer) THEN Some(answer)
    ELSE IF answer[2] < saturating_mul(expected_profit, 90) \div 100
    THEN Some(Err("Profit decreased significantly"))
    ELSE None

\* lines 207-211
check_gas_price(answer) ==
    IF IsErr(answer) THEN Some(answer)
    ELSE IF answer[2] > max_gas_price THEN Some(Err("Gas price too high"))
    ELSE None

\* validate_execution, lines 191-214
validate_execution(op, node) ==
    LET pools == check_pools(op.pools, node.liquidity, 1)
        profit == check_profit(op.expected_profit, node.profit)
        gas == check_gas_price(node.gas_price)
    IN  IF IsSome(pools) THEN pools[1]
        ELSE IF IsSome(profit) THEN profit[1]
        ELSE IF IsSome(gas) THEN gas[1]
        ELSE Ok("unit")

\* TradeResult: success and error
TradeResults ==
    {[success |-> TRUE, error |-> None],
     [success |-> FALSE, error |-> None],
     [success |-> FALSE, error |-> Some("reverted")]}

\* Analytics: the counters, and the lengths of errors and trade_history
AnalyticsStates ==
    {[successful_trades |-> 0, failed_trades |-> 0, errors |-> 0, trade_history |-> 0],
     [successful_trades |-> 600, failed_trades |-> 400, errors |-> 400,
      trade_history |-> 1000]}

\* record_trade_result, lines 217-256 (counters and lengths)
record_trade_result_Mut(analytics, result) ==
    [analytics EXCEPT !.trade_history = IF @ + 1 > 1000 THEN @ ELSE @ + 1]

record_trade_result(analytics, result) ==
    LET pushed == analytics.trade_history + 1
    IN  [successful_trades |->
             analytics.successful_trades + (IF result.success THEN 1 ELSE 0),
         failed_trades |->
             analytics.failed_trades + (IF result.success THEN 0 ELSE 1),
         errors |->
             analytics.errors
                 + (IF ~result.success /\ IsSome(result.error) THEN 1 ELSE 0),
         trade_history |-> IF pushed > 1000 THEN pushed - 1 ELSE pushed]

ExecInit ==
    /\ \E n \in 1..MaxPools :
          /\ e_op \in [pools : [1..n -> RecordedLiquidity],
                       expected_profit : ExpectedProfits]
          /\ e_node \in [liquidity : [1..n -> LiquidityAnswers],
                         profit : ProfitAnswers,
                         gas_price : GasPriceAnswers]
    /\ e_pc = "start"
    /\ e_trace = <<>>
    /\ e_trade = <<>>
    /\ e_analytics \in AnalyticsStates
    /\ e_result = <<>>
    /\ ExecAlone

\* line 152: self.validate_execution(opportunity).await?
ValidateExecution ==
    /\ e_pc = "start"
    /\ LET r == validate_execution(e_op, e_node)
       IN  IF IsOk(r)
           THEN /\ e_pc' = "validated"
                /\ e_trace' = Append(e_trace, "validate_ok")
                /\ UNCHANGED e_result
           ELSE /\ e_pc' = "error"
                /\ e_trace' = Append(e_trace, "validate_err")
                /\ e_result' = r
    /\ UNCHANGED <<e_op, e_node, e_trade, e_analytics>>
    /\ UNCHANGED execOthers

\* line 155: self.prepare_flash_loan(opportunity).await?
PrepareFlashLoan ==
    /\ e_pc = "validated"
    /\ \E ok \in BOOLEAN :
          IF ok
          THEN /\ e_pc' = "prepared"
               /\ e_trace' = Append(e_trace, "prepare")
               /\ UNCHANGED e_result
          ELSE /\ e_pc' = "error"
               /\ e_trace' = Append(e_trace, "prepare_err")
               /\ e_result' = Err("prepare_flash_loan")
    /\ UNCHANGED <<e_op, e_node, e_trade, e_analytics>>
    /\ UNCHANGED execOthers

\* line 158: self.build_arbitrage_transaction(opportunity, flash_params).await?
BuildArbitrageTransaction ==
    /\ e_pc = "prepared"
    /\ \E ok \in BOOLEAN :
          IF ok
          THEN /\ e_pc' = "built"
               /\ e_trace' = Append(e_trace, "build")
               /\ UNCHANGED e_result
          ELSE /\ e_pc' = "error"
               /\ e_trace' = Append(e_trace, "build_err")
               /\ e_result' = Err("build_arbitrage_transaction")
    /\ UNCHANGED <<e_op, e_node, e_trade, e_analytics>>
    /\ UNCHANGED execOthers

\* line 161: let result = self.execute_with_protection(tx, wallet).await
ExecuteWithProtection ==
    /\ e_pc = "built"
    /\ e_pc' = "submitted"
    /\ e_trace' = Append(e_trace, "submit")
    /\ e_trade' \in TradeResults
    /\ UNCHANGED <<e_op, e_node, e_analytics, e_result>>
    /\ UNCHANGED execOthers

\* lines 164-166: self.record_trade_result(opportunity, &result).await?; Ok(result)
RecordTradeResult ==
    /\ e_pc = "submitted"
    /\ e_pc' = "done"
    /\ e_trace' = Append(e_trace, "record")
    /\ e_analytics' = record_trade_result(e_analytics, e_trade)
    /\ e_result' = Ok(e_trade)
    /\ UNCHANGED <<e_op, e_node, e_trade>>
    /\ UNCHANGED execOthers

ExecNext ==
    \/ ValidateExecution
    \/ PrepareFlashLoan
    \/ BuildArbitrageTransaction
    \/ ExecuteWithProtection
    \/ RecordTradeResult

SpecExec == ExecInit /\ [][ExecNext]_vars

\* whether validate_execution has returned, and whether every call it made
\* to the node was answered
ValidationReturned == e_pc # "start" /\ e_pc # "idle"

NodeAnswered ==
    /\ \A k \in DOMAIN e_node.liquidity : IsOk(e_node.liquidity[k])
    /\ IsOk(e_node.profit)
    /\ IsOk(e_node.gas_price)

\* C15: validate_execution rejects the opportunity whenever some pool's
\* current liquidity is more than 5% below the recorded liquidity, or the
\* re-simulated profit is more than 10% below expected_profit, or the gas
\* price exceeds max_gas_price, for all integer values; otherwise it accepts.
C15_ValidateExecution ==
    (ValidationReturned /\ NodeAnswered) =>
        (e_trace[1] = "validate_err" <=>
            \/ \E k \in DOMAIN e_op.pools :
                  e_node.liquidity[k][2] * 100 < e_op.pools[k] * 95
            \/ e_node.profit[2] * 100 < e_op.expected_profit * 90
            \/ e_node.gas_price[2] > max_gas_price)

\* the positions of an event in e_trace
Positions(event) == {i \in DOMAIN e_trace : e_trace[i] = event}

\* execute_arbitrage has returned
ExecReturned == e_pc \in {"done", "error"}

\* the number of trades the analytics have counted
TradesCounted(analytics) == analytics.successful_trades + analytics.failed_trades

\* C16 as stated: once validation succeeded the trade result is recorded
\* exactly once, whatever happens next.
C16_RecordedOncePerValidation ==
    (ExecReturned /\ Positions("validate_ok") # {}) =>
        Cardinality(Positions("record")) = 1

\* the order of the steps of one call: nothing is prepared, built, submitted
\* or recorded before validate_execution succeeded, and nothing at all after
\* it failed; a result is recorded only right after the submission attempt,
\* and a call that attempted the submission returns with one record
StepsInOrder ==
    /\ \A i \in DOMAIN e_trace :
          e_trace[i] \in {"prepare", "build", "submit", "record"} =>
              i > 1 /\ e_trace[1] = "validate_ok"
    /\ Positions("validate_err") # {} => e_trace = <<"validate_err">>
    /\ \A i \in Positions("submit") : i > 1 /\ e_trace[i - 1] = "build"
    /\ \A i \in Positions("record") : i > 1 /\ e_trace[i - 1] = "submit"
    /\ Cardinality(Positions("record")) <= 1
    /\ ExecReturned =>
          (Cardinality(Positions("record")) = 1 <=> Positions("submit") # {})

\* the analytics change only in the step that records, and then by one trade
RecordsOneTrade ==
    e_analytics' # e_analytics =>
        /\ e_trace' = Append(e_trace, "record")
        /\ TradesCounted(e_analytics') = TradesCounted(e_analytics) + 1
        /\ e_analytics'.successful_trades =
               e_analytics.successful_trades + (IF e_trade.success THEN 1 ELSE 0)

\* every step that records changes the analytics
EveryRecordCounts ==
    Len(e_trace') > Len(e_trace) /\ e_trace'[Len(e_trace')] = "record" =>
        TradesCounted(e_analytics') = TradesCounted(e_analytics) + 1

\* C16 (amended): execute_arbitrage prepares, builds and submits only after
\* validate_execution succeeded; when validation fails nothing is built,
\* submitted or recorded; when the submission is attempted the trade result
\* is recorded exactly once, right after the attempt, whether it succeeded or
\* failed; when prepare_flash_loan or build_arbitrage_transaction fails after
\* a successful validation, nothing is submitted or recorded.
C16_ValidateThenRecord ==
    /\ []StepsInOrder
    /\ [][RecordsOneTrade /\ EveryRecordCounts]_vars

\* a failed submission attempt has been recorded
C16_Witness ==
    /\ e_pc = "done"
    /\ ~e_trade.success
    /\ e_trace = <<"validate_ok", "prepare", "build", "submit", "record">>
    /\ e_analytics.failed_trades \in {1, 401}

(***************************************************************************)
(* MEVProtection::submit_private_tx (flashbot/mev_protection.rs)           *)
(***************************************************************************)
MaxSubmissions == 3

Relays == <<"flashbots", "eden", "relayer">>

\* the position of a relay in the order of submit_private_tx
RelayRank(relay) == CHOOSE i \in DOMAIN Relays : Relays[i] = relay

\* one relay submission and whether it returned Ok
Attempt(relay, ok) == [relay |-> relay, ok |-> ok]

\* lines 78-87: where submit_private_tx goes after submit_to_flashbots
after_flashbots_Mut(ok, config) ==
    IF config.eden THEN "eden" ELSE "fallback"

after_flashbots(ok, config) ==
    IF ok THEN "returned"
    ELSE IF config.eden THEN "eden" ELSE "fallback"

\* lines 84-90: where it goes after submit_to_eden
after_eden(ok) == IF ok THEN "returned" ELSE "fallback"

\* the relays that accepted the transaction of the current call
AcceptedBy(attempts) == {attempts[i].relay : i \in {j \in DOMAIN attempts : attempts[j].ok}}

RelayInit ==
    /\ m_config \in [eden : BOOLEAN, relayer : BOOLEAN]
    /\ m_calls = 0
    /\ m_pc = "ready"
    /\ m_attempts = <<>>
    /\ m_accepted = <<>>
    /\ m_result = <<>>
    /\ RelayAlone

\* submit_private_tx(tx) is called
SubmitPrivateTx ==
    /\ m_pc \in {"ready", "returned"}
    /\ m_calls < MaxSubmissions
    /\ m_calls' = m_calls + 1
    /\ m_pc' = "flashbots"
    /\ m_attempts' = <<>>
    /\ m_accepted' = Append(m_accepted, {})
    /\ m_result' = <<>>
    /\ UNCHANGED m_config
    /\ UNCHANGED relayOthers

\* lines 78-80: self.submit_to_flashbots(&tx).await
SubmitToFlashbots ==
    /\ m_pc = "flashbots"
    /\ \E ok \in BOOLEAN :
          /\ m_attempts' = Append(m_attempts, Attempt("flashbots", ok))
          /\ m_pc' = after_flashbots(ok, m_config)
          /\ m_result' = IF m_pc' = "returned" THEN Ok("unit") ELSE m_result
    /\ m_accepted' = [m_accepted EXCEPT ![m_calls] = AcceptedBy(m_attempts')]
    /\ UNCHANGED <<m_config, m_calls>>
    /\ UNCHANGED relayOthers

\* lines 83-87: self.submit_to_eden(&tx).await, when eden_endpoint is Some
SubmitToEden ==
    /\ m_pc = "eden"
    /\ \E ok \in BOOLEAN :
          /\ m_attempts' = Append(m_attempts, Attempt("eden", ok))
          /\ m_pc' = after_eden(ok)
          /\ m_result' = IF ok THEN Ok("unit") ELSE m_result
    /\ m_accepted' = [m_accepted EXCEPT ![m_calls] = AcceptedBy(m_attempts')]
    /\ UNCHANGED <<m_config, m_calls>>
    /\ UNCHANGED relayOthers

\* lines 90-94: self.submit_to_relayer(&tx, relayer).await?; Ok(())
SubmitToRelayer ==
    /\ m_pc = "fallback"
    /\ m_config.relayer
    /\ \E ok \in BOOLEAN :
          /\ m_attempts' = Append(m_attempts, Attempt("relayer", ok))
          /\ m_result' = IF ok THEN Ok("unit") ELSE Err("submit_to_relayer")
    /\ m_pc' = "returned"
    /\ m_accepted' = [m_accepted EXCEPT ![m_calls] = AcceptedBy(m_attempts')]
    /\ UNCHANGED <<m_config, m_calls>>
    /\ UNCHANGED relayOthers

\* lines 90-94 when private_relayer is None: Ok(())
NoRelayer ==
    /\ m_pc = "fallback"
    /\ ~m_config.relayer
    /\ m_pc' = "returned"
    /\ m_result' = Ok("unit")
    /\ UNCHANGED <<m_config, m_calls, m_attempts, m_accepted>>
    /\ UNCHANGED relayOthers

RelayNext ==
    \/ SubmitPrivateTx
    \/ SubmitToFlashbots
    \/ SubmitToEden
    \/ SubmitToRelayer
    \/ NoRelayer

SpecRelay == RelayInit /\ [][RelayNext]_vars

\* C17: submit_private_tx tries the relays in the order Flashbots, Eden (only
\* if configured), fallback relayer; a relay is tried only after every
\* relay tried before it failed, and at most one relay accepts a transaction.
C17_RelayOrder ==
    /\ \A i, j \in DOMAIN m_attempts :
          i < j => RelayRank(m_attempts[i].relay) < RelayRank(m_attempts[j].relay)
    /\ m_attempts # <<>> => m_attempts[1].relay = "flashbots"
    /\ \A i \in DOMAIN m_attempts : m_attempts[i].relay = "eden" => m_config.eden
    /\ \A i, j \in DOMAIN m_attempts : i < j => ~m_attempts[i].ok
    /\ \A c \in DOMAIN m_accepted : Cardinality(m_accepted[c]) <= 1
    /\ (m_pc = "returned" /\ AcceptedBy(m_attempts) = {}) =>
          /\ m_config.eden => \E i \in DOMAIN m_attempts : m_attempts[i].relay = "eden"
          /\ m_config.relayer =>
                \E i \in DOMAIN m_attempts : m_attempts[i].relay = "relayer"

\* the fallback relayer accepted a transaction that Flashbots and Eden refused
C17_Witness ==
    /\ m_pc = "returned"
    /\ m_attempts = <<Attempt("flashbots", FALSE), Attempt("eden", FALSE),
                     Attempt("relayer", TRUE)>>
    /\ m_accepted[m_calls] = {"relayer"}

(***************************************************************************)
(* MEVProtection::calculate_block_delay (flashbot/mev_protection.rs)       *)
(***************************************************************************)
\* MEVProtection::new, line 39
min_block_delay == 1

\* the answers of get_pending_count
PendingCountAnswers == {Err("rpc")} \cup {Ok(n) : n \in 995..1005}

\* the answers of is_gas_volatile and of has_similar_pending
BoolAnswers == {Err("rpc"), Ok(TRUE), Ok(FALSE)}

\* calculate_block_delay, lines 115-135
calculate_block_delay(node) ==
    IF IsErr(node.pending_count) THEN node.pending_count
    ELSE IF IsErr(node.gas_volatile) THEN node.gas_volatile
    ELSE IF IsErr(node.similar_pending) THEN node.similar_pending
    ELSE Ok(min_block_delay
            + (IF node.pending_count[2] > 1000 THEN 1 ELSE 0)
            + (IF node.gas_volatile[2] THEN 1 ELSE 0)
            + (IF node.similar_pending[2] THEN 2 ELSE 0))

DelayInit ==
    /\ d_node \in [pending_count : PendingCountAnswers,
                   gas_volatile : BoolAnswers,
                   similar_pending : BoolAnswers]
    /\ d_called = FALSE
    /\ d_result = <<>>
    /\ DelayAlone

\* calculate_block_delay(tx) is called and returns
CalculateBlockDelay ==
    /\ ~d_called
    /\ d_called' = TRUE
    /\ d_result' = calculate_block_delay(d_node)
    /\ UNCHANGED d_node
    /\ UNCHANGED delayOthers

DelayNext == CalculateBlockDelay

SpecDelay == DelayInit /\ [][DelayNext]_vars

\* C18: the block delay calculate_block_delay returns is always 1, 2 or 3,
\* whatever the mempool congestion, the gas volatility and the similar
\* pending transactions.
C18_DelayRange ==
    (d_called /\ IsOk(d_result)) => d_result[2] \in {1, 2, 3}

(***************************************************************************)
(* MEVProtection::check_sandwich_risk (flashbot/mev_protection.rs) and the *)
(* NewBlock arm of spawn_arbitrage_handler (main.rs)                       *)
(***************************************************************************)
MaxBlocks == 3

\* the opportunities find_opportunities can return, by identity
Opportunities == {1, 2}

OpportunityLists == {<<>>, <<1>>, <<2>>, <<1, 2>>}

\* senders of pending transactions: a known sandwich bot, and another address
BotAddress == "bot"

OtherAddress == "other"

\* a pending transaction: its sender, and what has_similar_path and
\* is_suspicious_gas say about it and the transaction checked
PendingTx(from, similar_path, suspicious_gas) ==
    [from |-> from, similar_path |-> similar_path, suspicious_gas |-> suspicious_gas]

PendingTxs ==
    {PendingTx(BotAddress, FALSE, FALSE), PendingTx(OtherAddress, FALSE, FALSE),
     PendingTx(OtherAddress, TRUE, FALSE), PendingTx(OtherAddress, FALSE, TRUE)}

\* the answers of get_pending_transactions
PendingFeeds ==
    {Err("rpc")} \cup {Ok(txs) : txs \in UNION {[1..n -> PendingTxs] : n \in 0..2}}

\* MEVProtection::new, line 41
monitor_mempool == TRUE

\* check_sandwich_risk, lines 46-73
check_sandwich_risk(sandwich_bots, pending) ==
    IF ~monitor_mempool THEN Ok(FALSE)
    ELSE IF IsErr(pending) THEN pending
    ELSE Ok(\E i \in DOMAIN pending[2] :
                \/ pending[2][i].from \in sandwich_bots
                \/ pending[2][i].similar_path
                \/ pending[2][i].suspicious_gas)

\* whether the feed holds a transaction of a known sandwich bot
HasKnownBot(sandwich_bots, pending) ==
    IsOk(pending) /\ \E i \in DOMAIN pending[2] : pending[2][i].from \in sandwich_bots

\* what the loop did with an opportunity of a block
Handled(op, block, outcome) == [op |-> op, block |-> block, outcome |-> outcome]

SandwichInit ==
    /\ w_bots \in {{}, {BotAddress}}
    /\ w_block = 0
    /\ w_queue = <<>>
    /\ w_pc = "recv"
    /\ w_feed = <<>>
    /\ w_risk = <<>>
    /\ w_handled = {}
    /\ w_attempts = 0
    /\ SandwichAlone

\* the answers of find_opportunities
FindAnswers == {Err("rpc")} \cup {Ok(ops) : ops \in OpportunityLists}

\* main.rs lines 243-251 and 281: Event::NewBlock is received and
\* find_opportunities returns; on Err there is nothing to loop over
NewBlock ==
    /\ w_pc = "recv"
    /\ w_block < MaxBlocks
    /\ w_block' = w_block + 1
    /\ \E found \in FindAnswers :
          LET ops == IF IsErr(found) THEN <<>> ELSE found[2]
          IN  /\ w_queue' = ops
              /\ w_pc' = IF ops = <<>> THEN "recv" ELSE "loop"
    /\ UNCHANGED <<w_bots, w_feed, w_risk, w_handled, w_attempts>>
    /\ UNCHANGED sandwichOthers

\* main.rs lines 253-279: one iteration of `for op in opportunities`
HandleOpportunity ==
    /\ w_pc = "loop"
    /\ \E pending \in PendingFeeds :
          LET op == Head(w_queue)
              risk == check_sandwich_risk(w_bots, pending)
              rest == Tail(w_queue)
          IN  /\ w_feed' = pending
              /\ w_risk' = risk
              /\ IF IsErr(risk)
                 THEN \* line 257: `?` ends the task
                      /\ w_pc' = "stopped"
                      /\ w_queue' = <<>>
                      /\ UNCHANGED <<w_handled, w_attempts>>
                 ELSE /\ w_queue' = rest
                      /\ w_pc' = IF rest = <<>> THEN "recv" ELSE "loop"
                      /\ IF risk[2]
                         THEN \* line 277
                              /\ w_attempts' = w_attempts + 1
                              /\ w_handled' = w_handled \cup
                                    {Handled(op, w_block,
                                        IF HasKnownBot(w_bots, pending)
                                        THEN "bot_risk" ELSE "risk")}
                         ELSE \* lines 259-275: execute_arbitrage, with retries
                              /\ w_handled' = w_handled \cup
                                    {Handled(op, w_block, "executed")}
                              /\ UNCHANGED w_attempts
    /\ UNCHANGED <<w_bots, w_block>>
    /\ UNCHANGED sandwichOthers

SandwichNext ==
    \/ NewBlock
    \/ HandleOpportunity

SpecSandwich == SandwichInit /\ [][SandwichNext]_vars

\* the handler has finished with block b
BlockFinished(b) == w_block > b \/ (w_block = b /\ w_pc = "recv")

\* C19: when the pending feed holds a transaction of a known sandwich bot,
\* check_sandwich_risk reports risk; the opportunity is not submitted in the
\* current block but 2 blocks later; sandwich_attempts is incremented exactly
\* once for it.
C19_SandwichDelay ==
    /\ HasKnownBot(w_bots, w_feed) => w_risk = Ok(TRUE)
    /\ \A h \in w_handled :
          h.outcome = "bot_risk" =>
              /\ Handled(h.op, h.block, "executed") \notin w_handled
              /\ BlockFinished(h.block + 2) =>
                    Handled(h.op, h.block + 2, "executed") \in w_handled
    /\ w_attempts = Cardinality({h \in w_handled : h.outcome # "executed"})

(***************************************************************************)
(* ErrorRecovery::retry_with_backoff (monitoring/mod.rs). Time is counted  *)
(* in seconds; a sleep of d seconds takes d steps of the clock.            *)
(***************************************************************************)
MaxRetriesLimit == 4

MaxBackoffBase == 3

\* RuntimeConfig::default, lines 149-150: retry_attempts and backoff_base_ms
\* (in seconds)
retry_attempts == 3

backoff_base_s == 1

\* the ErrorRecovery configurations covered
BackoffConfigs == [max_retries : 0..MaxRetriesLimit, backoff_base : 1..MaxBackoffBase]

\* line 144: self.backoff_base * 2u32.pow(retries - 1)
backoff_Mut(backoff_base, retries) == backoff_base * 2 ^ retries

backoff(backoff_base, retries) == backoff_base * 2 ^ (retries - 1)

BackoffInit ==
    /\ b_config \in BackoffConfigs
    /\ b_pc = "call"
    /\ b_retries = 0
    /\ b_outcomes = <<>>
    /\ b_invoked_at = <<>>
    /\ b_sleeps = <<>>
    /\ b_remaining = 0
    /\ b_now = 0
    /\ b_result = <<>>
    /\ BackoffAlone

\* lines 136-137: operation() returns Ok(result)
OperationOk ==
    /\ b_pc = "call"
    /\ b_outcomes' = Append(b_outcomes, "Ok")
    /\ b_invoked_at' = Append(b_invoked_at, b_now)
    /\ b_pc' = "returned"
    /\ b_result' = Ok("result")
    /\ UNCHANGED <<b_config, b_retries, b_sleeps, b_remaining, b_now>>
    /\ UNCHANGED backoffOthers

\* lines 138-145: operation() returns Err(e)
OperationErr ==
    /\ b_pc = "call"
    /\ b_outcomes' = Append(b_outcomes, "Err")
    /\ b_invoked_at' = Append(b_invoked_at, b_now)
    /\ b_retries' = b_retries + 1
    /\ IF b_retries' >= b_config.max_retries
       THEN /\ b_pc' = "returned"
            /\ b_result' = Err("Max retries exceeded")
            /\ UNCHANGED <<b_sleeps, b_remaining>>
       ELSE /\ b_pc' = "sleep"
            /\ b_sleeps' = Append(b_sleeps, backoff(b_config.backoff_base, b_retries'))
            /\ b_remaining' = backoff(b_config.backoff_base, b_retries')
            /\ UNCHANGED b_result
    /\ UNCHANGED <<b_config, b_now>>
    /\ UNCHANGED backoffOthers

\* line 145: one second of tokio::time::sleep(backoff) passes
SleepTick ==
    /\ b_pc = "sleep"
    /\ b_remaining > 0
    /\ b_remaining' = b_remaining - 1
    /\ b_now' = b_now + 1
    /\ UNCHANGED <<b_config, b_pc, b_retries, b_outcomes, b_invoked_at, b_sleeps, b_result>>
    /\ UNCHANGED backoffOthers

\* line 145: the sleep is over, the loop goes round
Wake ==
    /\ b_pc = "sleep"
    /\ b_remaining = 0
    /\ b_pc' = "call"
    /\ UNCHANGED <<b_config, b_retries, b_outcomes, b_invoked_at, b_sleeps, b_remaining,
                   b_now, b_result>>
    /\ UNCHANGED backoffOthers

BackoffNext ==
    \/ OperationOk
    \/ OperationErr
    \/ SleepTick
    \/ Wake

SpecBackoff == BackoffInit /\ [][BackoffNext]_vars

\* the operation returns each time it is invoked, the timer runs and the
\* runtime polls the task
SpecBackoffLive == SpecBackoff /\ WF_vars(BackoffNext)

\* the configuration of RuntimeConfig::default
DefaultBackoff ==
    b_config = [max_retries |-> retry_attempts, backoff_base |-> backoff_base_s]

\* what holds of a call under the default configuration
BoundedRetries ==
    DefaultBackoff =>
        /\ Len(b_outcomes) <= 3
        /\ \A i \in DOMAIN b_outcomes : b_outcomes[i] = "Ok" => i = Len(b_outcomes)
        /\ (b_outcomes # <<>> /\ b_outcomes[Len(b_outcomes)] = "Ok") =>
              b_pc = "returned" /\ b_result = Ok("result")
        /\ \A k \in DOMAIN b_sleeps : b_sleeps[k] = <<1, 2>>[k]
        /\ \A k \in DOMAIN b_invoked_at :
              k > 1 => b_invoked_at[k] - b_invoked_at[k - 1] = b_sleeps[k - 1]
        /\ Len(b_sleeps) =
              IF b_pc = "returned" /\ IsErr(b_result) THEN 2
              ELSE Cardinality({i \in DOMAIN b_outcomes : b_outcomes[i] = "Err"})
        /\ (b_pc = "returned" /\ IsErr(b_result)) <=> b_outcomes = <<"Err", "Err", "Err">>

\* C20: with max_retries = 3 and base 1 s, retry_with_backoff invokes the
\* operation at most 3 times, returns the first success without a further
\* attempt, sleeps 1 s after the first and 2 s after the second failure
\* before the next attempt, returns an error after the third consecutive
\* failure, and always returns.
C20_BoundedBackoff ==
    /\ []BoundedRetries
    /\ DefaultBackoff => <>(b_pc = "returned")

\* the call returned an error after three failures and sleeps of 1 s and 2 s
C20_Witness ==
    /\ DefaultBackoff
    /\ b_pc = "returned"
    /\ IsErr(b_result)
    /\ b_outcomes = <<"Err", "Err", "Err">>
    /\ b_sleeps = <<1, 2>>
    /\ b_invoked_at = <<0, 1, 3>>

(***************************************************************************)
(* HealthChecker::check_health (monitoring/mod.rs) next to the dispatch of *)
(* spawn_arbitrage_handler (main.rs). Times are in seconds, memory in      *)
(* bytes.                                                                  *)
(***************************************************************************)
MaxDispatches == 2

\* the time of the run
ClockStart == 1000

\* lines 87 and 97: the staleness limit and max_memory
STALE_SECS == 120

max_memory == 1024 * 1024 * 1024

\* the values the gauges take: a block 121, 120 or 0 seconds old, or one
\* stamped a second ahead of the local clock
GaugeValues ==
    [last_block_time : {ClockStart - 121, ClockStart - 120, ClockStart, ClockStart + 1},
     connected_nodes : {0, 1},
     memory_usage : {max_memory, max_memory + 1}]

\* line 87: now - last_block > 120 in u64; None stands for the panic of the
\* subtraction in a build with overflow checks, and a wrapped difference is
\* above every limit
is_stale(now, last_block, build) ==
    IF last_block > now
    THEN IF build = "debug" THEN None ELSE Some(TRUE)
    ELSE Some(now - last_block > STALE_SECS)

\* check_health, lines 81-107: the value stored in self.healthy
check_health(now, metrics, build) ==
    LET stale == is_stale(now, metrics.last_block_time, build)
    IN  IF ~IsSome(stale) THEN None
        ELSE Some(/\ ~stale[1]
                  /\ ~(metrics.connected_nodes < 1)
                  /\ ~(metrics.memory_usage > max_memory))

HealthInit ==
    /\ h_build \in {"debug", "release"}
    /\ h_clock = ClockStart
    /\ h_metrics \in GaugeValues
    /\ h_healthy = TRUE
    /\ h_last_check = 0
    /\ h_task = "running"
    /\ h_dispatches = <<>>
    /\ HealthAlone

\* the other tasks set the gauges (main.rs lines 192 and 246)
SetGauges ==
    /\ h_metrics' \in GaugeValues \ {h_metrics}
    /\ UNCHANGED <<h_build, h_clock, h_healthy, h_last_check, h_task, h_dispatches>>
    /\ UNCHANGED healthOthers

\* main.rs lines 177-182: the health check task calls check_health
CheckHealth ==
    /\ h_task = "running"
    /\ LET r == check_health(h_clock, h_metrics, h_build)
       IN  IF IsSome(r)
           THEN /\ h_healthy' = r[1]
                /\ h_last_check' = h_clock
                /\ UNCHANGED h_task
           ELSE /\ h_task' = "panicked"
                /\ UNCHANGED <<h_healthy, h_last_check>>
    /\ UNCHANGED <<h_build, h_clock, h_metrics, h_dispatches>>
    /\ UNCHANGED healthOthers

\* main.rs lines 253-275: the handler dispatches an opportunity to
\* execute_arbitrage; it holds no HealthChecker
DispatchOpportunity ==
    /\ Len(h_dispatches) < MaxDispatches
    /\ h_dispatches' = Append(h_dispatches, h_healthy)
    /\ UNCHANGED <<h_build, h_clock, h_metrics, h_healthy, h_last_check, h_task>>
    /\ UNCHANGED healthOthers

HealthNext ==
    \/ SetGauges
    \/ CheckHealth
    \/ DispatchOpportunity

SpecHealth == HealthInit /\ [][HealthNext]_vars

\* C21: while the most recent health check marked the system unhealthy, the
\* handler dispatches no opportunity; dispatch resumes only after a later
\* check reports healthy.
C21_NoDispatchWhileUnhealthy ==
    \A i \in DOMAIN h_dispatches : h_dispatches[i]

(***************************************************************************)
(* MultiChainRouter::find_best_rates (protocols/routing.rs). APYs are in   *)
(* percent.                                                                *)
(***************************************************************************)
\* the chains of aave_pools
RateChains == {1, 2, 3}

\* the iteration orders of the HashMap aave_pools
ChainOrders ==
    {o \in [1..Cardinality(RateChains) -> RateChains] :
        \A i, j \in DOMAIN o : i # j => o[i] # o[j]}

\* what get_chain_rates does for a chain: it returns a RateInfo in time, it
\* returns an error, it is still running after TIMEOUT_DURATION, or the pool
\* answers in time with a rate or an index of 2^128 or more, on which
\* U256::as_u128 panics (lines 165 and 269)
ChainAnswers ==
    {[kind |-> "ok", supply_apy |-> a] : a \in {2, 5}}
        \cup {[kind |-> k, supply_apy |-> 0] : k \in {"err", "timeout", "overflow"}}

RateInfo(chain_id, supply_apy) == [chain_id |-> chain_id, supply_apy |-> supply_apy]

\* lines 111-121: the output of the future of a chain
rate_future(chain_id, answer) ==
    IF answer.kind = "ok" THEN Some(RateInfo(chain_id, answer.supply_apy)) ELSE None

\* lines 125-128: join_all yields the outputs in the order of the futures;
\* flatten keeps the Some values
RECURSIVE collect_rates(_, _)
collect_rates(slots, n) ==
    IF n = 0 THEN <<>>
    ELSE collect_rates(slots, n - 1) \o slots[n]

\* line 131: the stable sort by supply_apy, descending
InsertByApy(sorted, x) ==
    LET k == Cardinality({j \in 1..Len(sorted) : sorted[j].supply_apy >= x.supply_apy})
    IN  SubSeq(sorted, 1, k) \o <<x>> \o SubSeq(sorted, k + 1, Len(sorted))

RECURSIVE sort_by_apy(_, _)
sort_by_apy(rates, n) ==
    IF n = 0 THEN <<>> ELSE InsertByApy(sort_by_apy(rates, n - 1), rates[n])

RatesInit ==
    /\ g_order \in ChainOrders
    /\ g_answer \in [RateChains -> ChainAnswers]
    /\ g_pc = "start"
    /\ g_slots = <<>>
    /\ g_completed = <<>>
    /\ g_rates = <<>>
    /\ RatesAlone

\* lines 103-125: the futures are built and join_all starts polling them
StartJoin ==
    /\ g_pc = "start"
    /\ g_pc' = "joining"
    /\ g_slots' = [i \in DOMAIN g_order |-> "pending"]
    /\ UNCHANGED <<g_order, g_answer, g_completed, g_rates>>
    /\ UNCHANGED ratesOthers

\* lines 111-121: the future of one chain completes, in any order
FutureCompletes ==
    /\ g_pc = "joining"
    /\ \E i \in DOMAIN g_slots :
          /\ g_slots[i] = "pending"
          /\ IF g_answer[g_order[i]].kind = "overflow"
             THEN /\ g_pc' = "panicked"
                  /\ UNCHANGED <<g_slots, g_completed>>
             ELSE /\ g_slots' = [g_slots EXCEPT
                                    ![i] = rate_future(g_order[i], g_answer[g_order[i]])]
                  /\ g_completed' = Append(g_completed, i)
                  /\ UNCHANGED g_pc
    /\ UNCHANGED <<g_order, g_answer, g_rates>>
    /\ UNCHANGED ratesOthers

\* lines 125-133: every future has completed
CollectRates ==
    /\ g_pc = "joining"
    /\ \A i \in DOMAIN g_slots : g_slots[i] # "pending"
    /\ g_pc' = "returned"
    /\ LET rates == collect_rates(g_slots, Len(g_slots))
       IN  g_rates' = sort_by_apy(rates, Len(rates))
    /\ UNCHANGED <<g_order, g_answer, g_slots, g_completed>>
    /\ UNCHANGED ratesOthers

RatesNext ==
    \/ StartJoin
    \/ FutureCompletes
    \/ CollectRates

SpecRates == RatesInit /\ [][RatesNext]_vars

\* C22: find_best_rates returns one RateInfo for each chain whose query
\* succeeded in time and none for a chain that failed or timed out, never
\* fails as a whole, does not depend on the order in which the queries
\* complete, and sorts by supply APY descending.
C22_BestRates ==
    /\ g_pc # "panicked"
    /\ g_pc = "returned" =>
          /\ {g_rates[i].chain_id : i \in DOMAIN g_rates} =
                {c \in RateChains : g_answer[c].kind \in {"ok", "overflow"}}
          /\ \A i, j \in DOMAIN g_rates :
                i < j => /\ g_rates[i].chain_id # g_rates[j].chain_id
                         /\ g_rates[i].supply_apy >= g_rates[j].supply_apy
          /\ g_rates =
                LET asked == [i \in DOMAIN g_order |->
                                 rate_future(g_order[i], g_answer[g_order[i]])]
                    rates == collect_rates(asked, Len(asked))
                IN  sort_by_apy(rates, Len(rates))

(***************************************************************************)
(* MultiChainRouter::find_arbitrage_routes and build_route                 *)
(* (protocols/routing.rs). The amount is 100 units, so that the yield of a *)
(* chain is its APY in units; the gas token price is 1.                    *)
(***************************************************************************)
\* what find_best_rates knows of a chain: nothing, or its supply_apy and its
\* estimated_gas_cost
ChainRates ==
    {None} \cup {Some([supply_apy |-> a, estimated_gas_cost |-> g]) :
                    a \in {2, 5}, g \in {0, 1}}

\* the RateInfo list find_best_rates returns for the chains known
RatesOf(known) ==
    LET listed == [i \in 1..Cardinality(RateChains) |->
                      IF IsSome(known[i])
                      THEN <<[chain_id |-> i,
                              supply_apy |-> known[i][1].supply_apy,
                              estimated_gas_cost |-> known[i][1].estimated_gas_cost]>>
                      ELSE <<>>]
        rates == collect_rates(listed, Len(listed))
    IN  sort_by_apy(rates, Len(rates))

\* RouteStep::Bridge and RouteStep::Supply
BridgeStep(from_chain, to_chain) ==
    [type |-> "Bridge", from_chain |-> from_chain, to_chain |-> to_chain]

SupplyStep(chain_id, apy) == [type |-> "Supply", chain_id |-> chain_id, apy |-> apy]

\* calculate_route_profit, lines 288-305
calculate_route_profit(source_rate, target_rate) ==
    LET total_yield == target_rate.supply_apy - source_rate.supply_apy
        bridge_cost == source_rate.estimated_gas_cost + target_rate.estimated_gas_cost
        profit == total_yield - bridge_cost
    IN  IF profit > 0 THEN profit ELSE 0

\* build_route, lines 307-345
build_route(chains, source_rate, target_rate, profit) ==
    [source_chain |-> source_rate.chain_id,
     target_chain |-> target_rate.chain_id,
     estimated_profit |-> profit,
     steps |-> (IF chains[source_rate.chain_id].bridge_address
                THEN <<BridgeStep(source_rate.chain_id, target_rate.chain_id)>>
                ELSE <<>>)
               \o <<SupplyStep(target_rate.chain_id, target_rate.supply_apy)>>]

\* lines 192-215: the routes pushed for the pairs (s, t) of rates, in loop order
RECURSIVE routes_from(_, _, _, _, _)
routes_from(chains, rates, min_profit, s, t) ==
    IF s > Len(rates) THEN <<>>
    ELSE IF t > Len(rates) THEN routes_from(chains, rates, min_profit, s + 1, 1)
    ELSE LET profit == calculate_route_profit(rates[s], rates[t])
             here == IF rates[s].chain_id # rates[t].chain_id /\ profit > min_profit
                     THEN <<build_route(chains, rates[s], rates[t], profit)>>
                     ELSE <<>>
         IN  here \o routes_from(chains, rates, min_profit, s, t + 1)

\* line 218: the stable sort by estimated_profit, descending
InsertByProfit(sorted, x) ==
    LET k == Cardinality({j \in 1..Len(sorted) :
                             sorted[j].estimated_profit >= x.estimated_profit})
    IN  SubSeq(sorted, 1, k) \o <<x>> \o SubSeq(sorted, k + 1, Len(sorted))

RECURSIVE sort_by_profit(_, _)
sort_by_profit(routes, n) ==
    IF n = 0 THEN <<>> ELSE InsertByProfit(sort_by_profit(routes, n - 1), routes[n])

\* find_arbitrage_routes, lines 182-221
find_arbitrage_routes(chains, rates, min_profit) ==
    IF IsErr(rates) THEN rates
    ELSE LET routes == routes_from(chains, rates[2], min_profit, 1, 1)
         IN  Ok(sort_by_profit(routes, Len(routes)))

RoutesInit ==
    /\ k_chains \in [RateChains -> [bridge_address : BOOLEAN]]
    /\ k_rates \in {Err("rpc")} \cup {Ok(RatesOf(known)) : known \in [RateChains -> ChainRates]}
    /\ k_min_profit \in {0, 2}
    /\ k_called = FALSE
    /\ k_result = <<>>
    /\ RoutesAlone

\* find_arbitrage_routes is called and returns
FindArbitrageRoutes ==
    /\ ~k_called
    /\ k_called' = TRUE
    /\ k_result' = find_arbitrage_routes(k_chains, k_rates, k_min_profit)
    /\ UNCHANGED <<k_chains, k_rates, k_min_profit>>
    /\ UNCHANGED routesOthers

RoutesNext == FindArbitrageRoutes

SpecRoutes == RoutesInit /\ [][RoutesNext]_vars

\* C23: every route find_arbitrage_routes returns has source_chain #
\* target_chain and the steps [Bridge(source -> target), Supply(target)], in
\* that order, for every chain configuration.
C23_RouteShape ==
    (k_called /\ IsOk(k_result)) =>
        \A i \in DOMAIN k_result[2] :
            LET route == k_result[2][i]
            IN  /\ route.source_chain # route.target_chain
                /\ Len(route.steps) = 2
                /\ route.steps[1] = BridgeStep(route.source_chain, route.target_chain)
                /\ route.steps[2].type = "Supply"
                /\ route.steps[2].chain_id = route.target_chain

(***************************************************************************)
(* MultiChainRouter::execute_route (protocols/routing.rs)                  *)
(***************************************************************************)
MaxRouteSteps == 2

\* the steps of the routes covered, between chains 1 and 2
RouteSteps ==
    {BridgeStep(1, 2), SupplyStep(2, 5),
     [type |-> "Borrow", chain_id |-> 2], [type |-> "Swap", chain_id |-> 2]}

\* the chain whose aave pool a step looks up (lines 229, 237, 244)
pool_chain(step) ==
    IF step.type = "Bridge" THEN step.from_chain ELSE step.chain_id

\* whether the arm of a step sends a transaction and pushes its receipt:
\* the Bridge and Swap arms are empty (lines 232-233 and 257-258)
sends_transaction(step) == step.type \in {"Supply", "Borrow"}

RouteInit ==
    /\ x_route \in UNION {[1..n -> RouteSteps] : n \in 1..MaxRouteSteps}
    /\ x_pools \in SUBSET {1, 2}
    /\ x_pc = "loop"
    /\ x_i = 0
    /\ x_executed = <<>>
    /\ x_receipts = <<>>
    /\ RouteAlone

\* lines 226-261: one iteration of `for step in route.steps`
RouteStepRuns ==
    /\ x_pc = "loop"
    /\ x_i < Len(x_route)
    /\ LET step == x_route[x_i + 1]
       IN  IF step.type # "Swap" /\ pool_chain(step) \notin x_pools
           THEN \* ok_or_else(...)?
                /\ x_pc' = "error"
                /\ UNCHANGED <<x_i, x_executed, x_receipts>>
           ELSE IF sends_transaction(step)
           THEN \E ok \in BOOLEAN :
                   /\ x_executed' = Append(x_executed, x_i + 1)
                   /\ IF ok
                      THEN /\ x_receipts' = Append(x_receipts, x_i + 1)
                           /\ x_i' = x_i + 1
                           /\ UNCHANGED x_pc
                      ELSE \* aave.supply(...).await? or aave.borrow(...).await?
                           /\ x_pc' = "error"
                           /\ UNCHANGED <<x_i, x_receipts>>
           ELSE /\ x_i' = x_i + 1
                /\ UNCHANGED <<x_pc, x_executed, x_receipts>>
    /\ UNCHANGED <<x_route, x_pools>>
    /\ UNCHANGED routeOthers

\* line 263: Ok(receipts)
RouteReturns ==
    /\ x_pc = "loop"
    /\ x_i = Len(x_route)
    /\ x_pc' = "returned"
    /\ UNCHANGED <<x_route, x_pools, x_i, x_executed, x_receipts>>
    /\ UNCHANGED routeOthers

RouteNext ==
    \/ RouteStepRuns
    \/ RouteReturns

SpecRoute == RouteInit /\ [][RouteNext]_vars

\* C24: execute_route on a route with steps [Bridge, Supply] executes the
\* Bridge, then the Supply, and returns two receipts, one per step in step
\* order.
C24_TwoReceipts ==
    (x_pc = "returned" /\ x_route = <<BridgeStep(1, 2), SupplyStep(2, 5)>>) =>
        /\ x_executed = <<1, 2>>
        /\ x_receipts = <<1, 2>>

\* C25: when a check_pool_safety call fails during the enumeration, the pool
\* counts as unsafe: the edge is skipped and the search goes on, the error is
\* not returned to the caller of find_profitable_paths.
C25_OracleFailureSkipsEdge ==
    [][DfsSafetyError =>
          /\ f_status' = "dfs"
          /\ f_stack' = Advance
          /\ f_visited' = f_visited]_vars

(***************************************************************************)
(* FlashloanManager::calculate_fee (core/mod.rs)                           *)
(***************************************************************************)
\* enum FlashloanProvider (core/mod.rs:9-15)
FlashloanProviders == {"Balancer", "UniswapV2", "AAVE", "DyDx", "Compound"}

\* the amounts a fee is asked for: multiples of FeeAmountStep, 1 000 000 among
\* them
FeeAmountStep == 50000

MaxFeeAmountSteps == 24

FeeAmounts == {k * FeeAmountStep : k \in 0..MaxFeeAmountSteps}

\* the largest product the amounts drawn can produce stays far below 2^256;
\* FeeWordMax stands for U256::max_value() in the fee arithmetic
FeeWordMax == 2 ^ 30

\* U256::checked_div: None on a zero divisor, else the integer quotient
checked_div(a, b) == IF b = 0 THEN None ELSE Some(a \div b)

\* U256::checked_mul: None when the product does not fit
checked_mul(a, b) == IF a * b > FeeWordMax THEN None ELSE Some(a * b)

\* FlashloanManager::new, lines 46-50: the fee_multipliers map; only AAVE is
\* inserted, with U256::from(9).checked_div(U256::from(10000)).unwrap()
fee_multipliers ==
    [p \in {"AAVE"} |-> checked_div(9, 10000)[1]]

\* lines 113-121
calculate_fee(provider, amount) ==
    IF provider \notin DOMAIN fee_multipliers
    THEN Err("Fee not found for provider")
    ELSE LET product == checked_mul(amount, fee_multipliers[provider])
         IN  IF IsSome(product)
             THEN Ok(product[1])
             ELSE Err("Fee calculation overflow")

FeeInit ==
    /\ l_provider \in FlashloanProviders
    /\ l_amount \in FeeAmounts
    /\ l_called = FALSE
    /\ l_fee = None
    /\ FeeAlone

CalculateFee ==
    /\ ~l_called
    /\ l_called' = TRUE
    /\ l_fee' = calculate_fee(l_provider, l_amount)
    /\ UNCHANGED <<l_provider, l_amount>>
    /\ UNCHANGED feeOthers

FeeNext == CalculateFee

SpecFee == FeeInit /\ [][FeeNext]_vars

\* C26: for the AAVE provider calculate_fee returns 0.09% of the amount, 900
\* for an amount of 1 000 000, hence a strictly positive fee for such amounts.
C26_AaveFee ==
    (l_called /\ l_provider = "AAVE") =>
        /\ l_fee = Ok((l_amount * 9) \div 10000)
        /\ (l_amount = 1000000 => l_fee = Ok(900))
        /\ (l_amount >= 1000000 => IsOk(l_fee) /\ l_fee[2] > 0)

(***************************************************************************)
(* StateMonitor::update_pool_state (metrics/mod.rs) called from            *)
(* concurrent tasks                                                        *)
(***************************************************************************)
MaxTasks == 2

MaxCalls == 2

MonitorTasks == 1..MaxTasks

MonitoredPools == {201, 202}

\* a lock that grants the write guard whatever is held
write_available_Mut(writer) == TRUE

\* RwLock::write (line 72): the guard is granted when no other guard is held
write_available(writer) == writer = 0

\* HashMap::entry(pool).or_insert(PoolState {update_count: 0, ..}), lines 75-80
or_insert(states, pool) ==
    [q \in DOMAIN states \cup {pool} |->
        IF q \in DOMAIN states THEN states[q] ELSE 0]

MonitorInit ==
    /\ u_pc = [t \in MonitorTasks |-> "idle"]
    /\ u_pool = [t \in MonitorTasks |-> 0]
    /\ u_count = [t \in MonitorTasks |-> 0]
    /\ u_calls = [t \in MonitorTasks |-> 0]
    /\ u_writer = 0
    /\ u_states = <<>>
    /\ u_done = [p \in MonitoredPools |-> 0]
    /\ MonitorAlone

\* line 71: a task calls update_pool_state(pool) and reaches write().await
CallUpdate(t, pool) ==
    /\ u_pc[t] = "idle"
    /\ u_calls[t] < MaxCalls
    /\ u_pc' = [u_pc EXCEPT ![t] = "waiting"]
    /\ u_pool' = [u_pool EXCEPT ![t] = pool]
    /\ u_calls' = [u_calls EXCEPT ![t] = @ + 1]
    /\ UNCHANGED <<u_count, u_writer, u_states, u_done>>
    /\ UNCHANGED monitorOthers

\* line 72: the write guard is granted
AcquireWrite(t) ==
    /\ u_pc[t] = "waiting"
    /\ write_available(u_writer)
    /\ u_writer' = t
    /\ u_pc' = [u_pc EXCEPT ![t] = "locked"]
    /\ UNCHANGED <<u_pool, u_count, u_calls, u_states, u_done>>
    /\ UNCHANGED monitorOthers

\* lines 75-80 and the read of `state.update_count += 1` (line 82)
EntryOrInsert(t) ==
    /\ u_pc[t] = "locked"
    /\ u_states' = or_insert(u_states, u_pool[t])
    /\ u_count' = [u_count EXCEPT ![t] = u_states'[u_pool[t]]]
    /\ u_pc' = [u_pc EXCEPT ![t] = "entry"]
    /\ UNCHANGED <<u_pool, u_calls, u_writer, u_done>>
    /\ UNCHANGED monitorOthers

\* the write of line 82, then Ok(()) at line 85 drops the guard
IncrementAndReturn(t) ==
    /\ u_pc[t] = "entry"
    /\ u_states' = [or_insert(u_states, u_pool[t]) EXCEPT ![u_pool[t]] = u_count[t] + 1]
    /\ u_writer' = 0
    /\ u_done' = [u_done EXCEPT ![u_pool[t]] = @ + 1]
    /\ u_pc' = [u_pc EXCEPT ![t] = "idle"]
    /\ UNCHANGED <<u_pool, u_count, u_calls>>
    /\ UNCHANGED monitorOthers

MonitorNext ==
    \E t \in MonitorTasks :
        \/ \E pool \in MonitoredPools : CallUpdate(t, pool)
        \/ AcquireWrite(t)
        \/ EntryOrInsert(t)
        \/ IncrementAndReturn(t)

SpecMonitor == MonitorInit /\ [][MonitorNext]_vars

\* no update_pool_state call is between taking the guard and returning
NoUpdateInProgress == \A t \in MonitorTasks : u_pc[t] \in {"idle", "waiting"}

MaxUrlLen == 6

HTTP == <<"h", "t", "t", "p", ":", "/", "/">>

HTTPS == <<"h", "t", "t", "p", "s", ":", "/", "/">>

WS == <<"w", "s", ":", "/", "/">>

WSS == <<"w", "s", "s", ":", "/", "/">>

\* the urls validated: every string of at most MaxUrlLen characters of
\* "ws:/", and a few schemes, whole or cut short, followed by a host
UrlSchemes ==
    {HTTP, HTTPS, WS, WSS, <<"f", "t", "p", ":", "/", "/">>,
     <<"h", "t", "t", "p", ":", "/">>, <<"h", "t", "t", "p", "s", ":">>}

UrlHosts == {<<>>, <<"x">>, <<"x", ":", "8">>, <<"w", "s", ":", "/", "/">>}

UrlInputs ==
    UNION {[1..n -> {"w", "s", ":", "/"}] : n \in 0..MaxUrlLen}
        \cup {scheme \o host : scheme \in UrlSchemes, host \in UrlHosts}

\* str::starts_with
starts_with(s, prefix) ==
    /\ Len(s) >= Len(prefix)
    /\ SubSeq(s, 1, Len(prefix)) = prefix

\* lines 91-96
validate_rpc_url(url) ==
    IF ~starts_with(url, HTTP) /\ ~starts_with(url, HTTPS) /\ ~starts_with(url, WS)
    THEN Err("invalid_rpc_url")
    ELSE Ok("unit")

ConfigInit ==
    /\ c_url \in UrlInputs
    /\ c_called = FALSE
    /\ c_result = None
    /\ ConfigAlone

ValidateRpcUrl ==
    /\ ~c_called
    /\ c_called' = TRUE
    /\ c_result' = validate_rpc_url(c_url)
    /\ UNCHANGED c_url
    /\ UNCHANGED configOthers

ConfigNext == ValidateRpcUrl

SpecConfig == ConfigInit /\ [][ConfigNext]_vars

\* C28: validation accepts an rpc_url if and only if it begins with one of
\* ws://, wss://, http:// or https://.
C28_RpcUrlSchemes ==
    c_called =>
        (IsOk(c_result) <=>
            \E scheme \in {WS, WSS, HTTP, HTTPS} : starts_with(c_url, scheme))

\* the next edge of the DFS closes a cycle through token_in over a pair not in
\* use; the cycle has one hop per token of the current path
ClosesCycle ==
    /\ HasEdge
    /\ EdgePair \notin f_visited
    /\ Edge.token = f_token_in

\* C29: every cycle through token_in of at most max_hops (4) pool hops is
\* enumerated, i.e. handed to validate_path when the DFS closes it, and no
\* cycle of more than max_hops hops is.
C29_CyclesUpToMaxHops ==
    /\ (ClosesCycle /\ Len(f_path) <= MAX_HOPS) => ENABLED DfsCycle
    /\ (ClosesCycle /\ Len(f_path) > MAX_HOPS) => ~ENABLED DfsCycle
    /\ \A i \in 1..Len(f_paths) : Len(f_paths[i].tokens) - 1 <= MAX_HOPS

\* C30: every pair inserted into visited_pairs is released on every exit path:
\* whenever find_profitable_paths has returned, with Ok or with an error raised
\* inside the DFS, visited_pairs is empty again.
C30_VisitedPairsReleased ==
    f_status \in {"returned", "error"} => f_visited = {}

\* the pool of the hop the DFS took out of token_in: the edge before the index
\* of the first call's for loop
FirstHopPool == Neighbors(f_pools, f_token_in)[f_stack[1].idx - 1].pool

\* the DFS is one hop away from token_in, at X, and its next edge leads back
\* to token_in through another pool over the same pair
AtSecondPoolOfPair ==
    /\ HasEdge
    /\ Len(f_stack) = 2
    /\ Edge.token = f_token_in
    /\ Edge.pool # FirstHopPool

\* C31: for two distinct pools over the pair (token_in, X) the search
\* enumerates the two-pool cycle token_in -> X -> token_in: when the DFS at X
\* meets the second pool's edge back to token_in, the cycle is handed to
\* validate_path.
C31_TwoPoolCycle ==
    AtSecondPoolOfPair => ENABLED DfsCycle

(***************************************************************************)
(* event_handler (strategy.rs): the profit test of one path of a block     *)
(***************************************************************************)
MaxPathProfit == 12

MaxGasCostUsdc == 4

\* line 138: gas_cost_in_usdc * U256::from(2)
min_profit_threshold(gas_cost_in_usdc) == gas_cost_in_usdc * 2

\* lines 139-140: (opt.1.as_u128() as i128) - (gas_cost_in_usdc.as_u128() as i128)
excess_profit(profit, gas_cost_in_usdc) == profit - gas_cost_in_usdc

\* line 142: the test that guards the bundle
passes_profit_test(profit, gas_cost_in_usdc) ==
    excess_profit(profit, gas_cost_in_usdc) > min_profit_threshold(gas_cost_in_usdc)

BundleInit ==
    /\ n_profit \in 0..MaxPathProfit
    /\ n_gas_cost \in 0..MaxGasCostUsdc
    /\ n_pc = "path"
    /\ n_order_ok = FALSE
    /\ n_sign_ok = FALSE
    /\ n_sent = FALSE
    /\ BundleAlone

\* lines 135-201: one iteration of `for spread in sorted_spreads`; the bundle
\* is sent when the test passes and order_tx and sign_tx both answer Ok
HandlePath ==
    /\ n_pc = "path"
    /\ n_pc' = "done"
    /\ \E order_ok, sign_ok \in BOOLEAN :
          /\ n_order_ok' = order_ok
          /\ n_sign_ok' = sign_ok
          /\ n_sent' = (passes_profit_test(n_profit, n_gas_cost) /\ order_ok /\ sign_ok)
    /\ UNCHANGED <<n_profit, n_gas_cost>>
    /\ UNCHANGED bundleOthers

BundleNext == HandlePath

SpecBundle == BundleInit /\ [][BundleNext]_vars

\* C32: a bundle is submitted for a path exactly when its optimised profit
\* exceeds min_profit_threshold = 2 x the gas cost in profit-token units (the
\* transaction having been built and signed).
C32_ProfitThreshold ==
    (n_pc = "done" /\ n_order_ok /\ n_sign_ok) =>
        (n_sent <=> n_profit > min_profit_threshold(n_gas_cost))

(***************************************************************************)
(* The broadcast channel of block events and the handler task that         *)
(* receives from it: spawn_arbitrage_handler (main.rs) and event_handler   *)
(* (strategy.rs)                                                           *)
(***************************************************************************)
\* the capacity of the channel, broadcast::channel(512) at main.rs:96, scaled
ChannelCapacity == 2

MaxSentBlocks == 4

Handlers == {"spawn_arbitrage_handler", "event_handler"}

\* Sender::send: the event is stored for the receiver; when the channel holds
\* `capacity` unconsumed events the oldest one is overwritten
channel_send(buffer, event, capacity) ==
    IF Len(buffer) >= capacity
    THEN Append(Tail(buffer), event)
    ELSE Append(buffer, event)

\* what a handler does when recv() answers Err(Lagged): main.rs:241 leaves its
\* `while let Ok(event)` loop and the task returns Ok(()); strategy.rs:213
\* matches Err(_) => {} and goes on with the loop
after_lagged(handler) ==
    IF handler = "spawn_arbitrage_handler" THEN "ended" ELSE "recv"

ChannelInit ==
    /\ j_handler \in Handlers
    /\ j_sent = 0
    /\ j_buffer = <<>>
    /\ j_lagged = FALSE
    /\ j_pc = "recv"
    /\ j_current = 0
    /\ j_processed = <<>>
    /\ j_busy_arrivals = {}
    /\ ChannelAlone

\* the block stream sends the event of the next block
SendBlock ==
    /\ j_sent < MaxSentBlocks
    /\ j_sent' = j_sent + 1
    /\ IF j_pc = "ended"
       THEN UNCHANGED <<j_buffer, j_lagged>>
       ELSE /\ j_buffer' = channel_send(j_buffer, j_sent + 1, ChannelCapacity)
            /\ j_lagged' = (j_lagged \/ Len(j_buffer) >= ChannelCapacity)
    /\ j_busy_arrivals' =
          IF j_pc = "processing" THEN j_busy_arrivals \cup {j_sent + 1} ELSE j_busy_arrivals
    /\ UNCHANGED <<j_handler, j_pc, j_current, j_processed>>
    /\ UNCHANGED channelOthers

\* main.rs:241-243, strategy.rs:58-60: recv() answers Ok(event) and the
\* handler starts on the block
RecvBlock ==
    /\ j_pc = "recv"
    /\ ~j_lagged
    /\ j_buffer # <<>>
    /\ j_current' = Head(j_buffer)
    /\ j_buffer' = Tail(j_buffer)
    /\ j_pc' = "processing"
    /\ UNCHANGED <<j_handler, j_sent, j_lagged, j_processed, j_busy_arrivals>>
    /\ UNCHANGED channelOthers

\* recv() answers Err(Lagged(n)); the receiver is moved to the oldest event
\* still held
RecvLagged ==
    /\ j_pc = "recv"
    /\ j_lagged
    /\ j_lagged' = FALSE
    /\ j_pc' = after_lagged(j_handler)
    /\ UNCHANGED <<j_handler, j_sent, j_buffer, j_current, j_processed, j_busy_arrivals>>
    /\ UNCHANGED channelOthers

\* main.rs:243-283, strategy.rs:60-204: the run for the block is over and the
\* loop goes back to recv()
FinishBlock ==
    /\ j_pc = "processing"
    /\ j_processed' = Append(j_processed, j_current)
    /\ j_current' = 0
    /\ j_pc' = "recv"
    /\ UNCHANGED <<j_handler, j_sent, j_buffer, j_lagged, j_busy_arrivals>>
    /\ UNCHANGED channelOthers

ChannelNext ==
    \/ SendBlock
    \/ RecvBlock
    \/ RecvLagged
    \/ FinishBlock

SpecChannel == ChannelInit /\ [][ChannelNext]_vars

\* the blocks a finder run was started for
StartedBlocks ==
    {j_processed[i] : i \in 1..Len(j_processed)} \cup
        (IF j_current # 0 THEN {j_current} ELSE {})

\* C33: at most one block is processed at a time, and a block event that
\* arrives while the previous block's run is in progress is rejected: no finder
\* run is ever started for it.
C33_BusyArrivalsRejected ==
    j_busy_arrivals \cap StartedBlocks = {}

\* C37: a lag of the arbitrage handler's receiver never terminates the handler
\* task: it keeps receiving.
C37_LagKeepsHandler ==
    j_handler = "spawn_arbitrage_handler" => j_pc # "ended"

\* the loop has passed the FlashLoan, stands on the source chain, and no
\* AaveBorrow of the flash token on the source chain has been seen
FlashTakenNoBorrow ==
    /\ q_pc = "loop"
    /\ q_seq.has_flashloan
    /\ q_seq.current_chain = q_strategy.source_chain
    /\ <<q_strategy.source_chain, q_strategy.flash_token>> \notin DOMAIN q_seq.borrowed_amounts

\* C34: a plan whose flash loan is repaid on its source chain by an AaveRepay
\* of the flash token is accepted without any AaveBorrow of that token: the
\* loop iteration on that Repay step does not return an error.
C34_RepayWithoutBorrow ==
    [][(/\ FlashTakenNoBorrow
        /\ \E a \in SeqAmounts :
              q_seq' = sequence_step(q_seq, q_strategy,
                            AaveRepay(q_strategy.source_chain, q_strategy.flash_token, a)))
          => q_pc' # "error"]_vars

(***************************************************************************)
(* CrossChainFlashloan::execute_steps and handle_step_result               *)
(* (strategies/cross_chain_flashloan.rs)                                   *)
(***************************************************************************)
MaxPlanSteps == 3

\* what executing a step yields: Err(e), or Ok(receipt) with receipt.status
\* Some(1), Some(0) (reverted) or None
StepOutcomes == {"error", "status_1", "status_0", "status_none"}

\* line 811: receipt.status.unwrap_or_default().as_u64() == 1
receipt_success(outcome) == outcome = "status_1"

\* handle_step_result, lines 804-829: the CompletedStep pushed (its success
\* flag) and whether the call returns Ok(())
handle_step_result(outcome) ==
    IF outcome = "error"
    THEN [success |-> FALSE, ok |-> FALSE]
    ELSE [success |-> receipt_success(outcome), ok |-> TRUE]

\* line 95: completed_steps.iter().all(|s| s.success)
all_success(completed_steps) ==
    \A i \in 1..Len(completed_steps) : completed_steps[i]

StepsInit ==
    /\ s_len \in 1..MaxPlanSteps
    /\ s_pc = "loop"
    /\ s_executed = <<>>
    /\ s_outcomes = <<>>
    /\ s_completed = <<>>
    /\ s_success = FALSE
    /\ StepsAlone

\* lines 59-91: one iteration of `for step in strategy.execution_steps`: the
\* step is executed and handle_step_result(..)? decides whether the loop goes on
ExecuteStep ==
    /\ s_pc = "loop"
    /\ Len(s_executed) < s_len
    /\ \E outcome \in StepOutcomes :
          LET handled == handle_step_result(outcome)
          IN  /\ s_outcomes' = Append(s_outcomes, outcome)
              /\ s_completed' = Append(s_completed, handled.success)
              /\ s_pc' = IF handled.ok THEN "loop" ELSE "error"
    /\ s_executed' = Append(s_executed, Len(s_executed) + 1)
    /\ UNCHANGED <<s_len, s_success>>
    /\ UNCHANGED stepsOthers

\* lines 94-100: the loop is over, Ok(ExecutionResult {..}) is returned
StepsReturn ==
    /\ s_pc = "loop"
    /\ Len(s_executed) = s_len
    /\ s_pc' = "returned"
    /\ s_success' = all_success(s_completed)
    /\ UNCHANGED <<s_len, s_executed, s_outcomes, s_completed>>
    /\ UNCHANGED stepsOthers

StepsNext ==
    \/ ExecuteStep
    \/ StepsReturn

SpecSteps == StepsInit /\ [][StepsNext]_vars

\* C35: the steps run strictly in order, no step is executed after a step
\* whose transaction errored or whose receipt reports a status other than 1,
\* and the plan is reported successful only if every step succeeded.
C35_StopAtFailedStep ==
    /\ s_executed = [i \in 1..Len(s_executed) |-> i]
    /\ \A i \in 1..(Len(s_outcomes) - 1) : s_outcomes[i] = "status_1"
    /\ (s_pc = "returned" /\ s_success) =>
          /\ Len(s_outcomes) = s_len
          /\ \A i \in 1..s_len : s_outcomes[i] = "status_1"

\* C36: submit_private_tx returns Ok only if at least one relay accepted the
\* transaction; when Flashbots and Eden fail and no private relayer is
\* configured it returns an error.
C36_SuccessMeansAccepted ==
    m_pc = "returned" =>
        /\ IsOk(m_result) => AcceptedBy(m_attempts) # {}
        /\ (AcceptedBy(m_attempts) = {} /\ ~m_config.relayer) => IsErr(m_result)

(***************************************************************************)
(* MarketMaker::update_position, needs_rebalance and rebalance_position    *)
(* (flashbot/market_maker.rs)                                              *)
(***************************************************************************)
MaxInventory == 6

RebalanceThresholds == {1, 50, 100}

\* lines 84-99: needs_rebalance, given target_inventory.get(&token)
needs_rebalance(target, amount, rebalance_threshold) ==
    IF IsSome(target)
    THEN LET diff == IF amount > target[1] THEN amount - target[1] ELSE target[1] - amount
             threshold == saturating_mul(target[1], rebalance_threshold) \div 100
         IN  diff > threshold
    ELSE FALSE

\* RwLock::read (line 103): the read guard is granted when no write guard is held
read_available(write_held) == ~write_held

\* the MarketMaker, with or without a target for the token, and the call
\* update_position(token, amount)
MakerInit ==
    /\ i_target \in {None} \cup {Some(t) : t \in 1..MaxInventory}
    /\ i_threshold \in RebalanceThresholds
    /\ i_amount \in 0..MaxInventory
    /\ i_pc = "call"
    /\ i_write_held = FALSE
    /\ i_position = None
    /\ MakerAlone

\* line 48: the write guard `positions` is taken; it lives until the function
\* returns
TakePositions ==
    /\ i_pc = "call"
    /\ ~i_write_held
    /\ i_write_held' = TRUE
    /\ i_pc' = "insert"
    /\ UNCHANGED <<i_target, i_threshold, i_amount, i_position>>
    /\ UNCHANGED makerOthers

\* line 49: positions.insert(token, amount)
InsertPosition ==
    /\ i_pc = "insert"
    /\ i_position' = Some(i_amount)
    /\ i_pc' = "check"
    /\ UNCHANGED <<i_target, i_threshold, i_amount, i_write_held>>
    /\ UNCHANGED makerOthers

\* lines 52-56: needs_rebalance decides; without a rebalance the function
\* returns Ok(()) and the guard is dropped
CheckRebalance ==
    /\ i_pc = "check"
    /\ IF needs_rebalance(i_target, i_amount, i_threshold)
       THEN /\ i_pc' = "rebalance"
            /\ UNCHANGED i_write_held
       ELSE /\ i_pc' = "done"
            /\ i_write_held' = FALSE
    /\ UNCHANGED <<i_target, i_threshold, i_amount, i_position>>
    /\ UNCHANGED makerOthers

\* lines 102-119 called at line 53: rebalance_position awaits the read guard of
\* current_positions; granted, it adjusts the exposure and update_position
\* returns; refused for ever, the call never returns
RebalancePosition ==
    /\ i_pc = "rebalance"
    /\ IF read_available(i_write_held)
       THEN /\ i_pc' = "done"
            /\ i_write_held' = FALSE
       ELSE /\ i_pc' = "blocked"
            /\ UNCHANGED i_write_held
    /\ UNCHANGED <<i_target, i_threshold, i_amount, i_position>>
    /\ UNCHANGED makerOthers

MakerNext ==
    \/ TakePositions
    \/ InsertPosition
    \/ CheckRebalance
    \/ RebalancePosition

SpecMaker == MakerInit /\ [][MakerNext]_vars

StargatePool(asset, pool_id, version) ==
    [asset |-> asset, pool_id |-> pool_id, version |-> version]

\* config.rs lines 23-62
MAINNET_POOLS ==
    [a \in {"A0b8", "dAC1", "6B17", "853d"} |->
        CASE a = "A0b8" -> StargatePool("USDC", 1, 1)
          [] a = "dAC1" -> StargatePool("USDT", 2, 1)
          [] a = "6B17" -> StargatePool("DAI", 3, 1)
          [] a = "853d" -> StargatePool("FRAX", 7, 1)]

\* lines 65-95
POLYGON_POOLS ==
    [a \in {"2791", "c213", "8f3C"} |->
        CASE a = "2791" -> StargatePool("USDC", 1, 1)
          [] a = "c213" -> StargatePool("USDT", 2, 1)
          [] a = "8f3C" -> StargatePool("DAI", 3, 1)]

\* lines 98-128
ARBITRUM_POOLS ==
    [a \in {"FF97", "Fd08", "17FC"} |->
        CASE a = "FF97" -> StargatePool("USDC", 1, 1)
          [] a = "Fd08" -> StargatePool("USDT", 2, 1)
          [] a = "17FC" -> StargatePool("FRAX", 7, 1)]

\* lines 131-161
OPTIMISM_POOLS ==
    [a \in {"7F5c", "DA10", "2E3D"} |->
        CASE a = "7F5c" -> StargatePool("USDC", 1, 1)
          [] a = "DA10" -> StargatePool("DAI", 3, 1)
          [] a = "2E3D" -> StargatePool("FRAX", 7, 1)]

\* lines 164-176
BASE_POOLS ==
    [a \in {"8335"} |-> StargatePool("USDC", 1, 1)]

\* lines 179-218: the pools of each configured chain
CHAIN_CONFIGS ==
    [c \in {1, 137, 42161, 10, 8453} |->
        CASE c = 1 -> MAINNET_POOLS
          [] c = 137 -> POLYGON_POOLS
          [] c = 42161 -> ARBITRUM_POOLS
          [] c = 10 -> OPTIMISM_POOLS
          [] c = 8453 -> BASE_POOLS]

\* lines 232-234
is_supported_chain(chain_id) == chain_id \in DOMAIN CHAIN_CONFIGS

\* lines 236-242
is_supported_token(chain_id, token) ==
    IF chain_id \in DOMAIN CHAIN_CONFIGS
    THEN token \in DOMAIN CHAIN_CONFIGS[chain_id]
    ELSE FALSE

\* lines 220-222
get_pool_config(chain_id, token) ==
    IF chain_id \in DOMAIN CHAIN_CONFIGS /\ token \in DOMAIN CHAIN_CONFIGS[chain_id]
    THEN Some(CHAIN_CONFIGS[chain_id][token])
    ELSE None

\* cross_chain_flashloan.rs lines 257-295
get_stargate_pool_ids(from_chain, to_chain, token) ==
    IF ~is_supported_chain(from_chain) THEN Err("Source chain not supported by Stargate")
    ELSE IF ~is_supported_chain(to_chain) THEN Err("Destination chain not supported by Stargate")
    ELSE IF ~is_supported_token(from_chain, token) THEN Err("Token not supported on source chain")
    ELSE IF ~is_supported_token(to_chain, token) THEN Err("Token not supported on destination chain")
    ELSE LET src_pool == get_pool_config(from_chain, token)
             dst_pool == get_pool_config(to_chain, token)
         IN  IF ~IsSome(src_pool) \/ ~IsSome(dst_pool) THEN Err("Pool config not found")
             ELSE IF src_pool[1].version # dst_pool[1].version
             THEN Err("Incompatible pool versions")
             ELSE Ok(<<src_pool[1].pool_id, dst_pool[1].pool_id>>)

\* the chains asked for: the configured ones and BNB chain, which is not
StargateCallChains == DOMAIN CHAIN_CONFIGS \cup {56}

\* the token addresses asked for: every configured one and WETH on mainnet
StargateCallTokens ==
    UNION {DOMAIN CHAIN_CONFIGS[c] : c \in DOMAIN CHAIN_CONFIGS} \cup {"C02a"}

StargateInit ==
    /\ z_from_chain \in StargateCallChains
    /\ z_to_chain \in StargateCallChains
    /\ z_token \in StargateCallTokens
    /\ z_called = FALSE
    /\ z_result = None
    /\ StargateAlone

GetStargatePoolIds ==
    /\ ~z_called
    /\ z_called' = TRUE
    /\ z_result' = get_stargate_pool_ids(z_from_chain, z_to_chain, z_token)
    /\ UNCHANGED <<z_from_chain, z_to_chain, z_token>>
    /\ UNCHANGED stargateOthers

StargateNext == GetStargatePoolIds

SpecStargate == StargateInit /\ [][StargateNext]_vars

\* the pools of a chain for an asset
AssetPools(chain_id, asset) ==
    {CHAIN_CONFIGS[chain_id][a] : a \in {b \in DOMAIN CHAIN_CONFIGS[chain_id] :
                                            CHAIN_CONFIGS[chain_id][b].asset = asset}}

\* C39: for a bridge between two distinct supported chains of an asset that
\* has a pool on both chains, the token being the asset's address on the
\* source chain, get_stargate_pool_ids succeeds and returns the source and
\* destination pool ids (USDC, pool id 1, from Ethereum to Polygon).
C39_PoolIdsFound ==
    (/\ z_called
     /\ z_from_chain # z_to_chain
     /\ is_supported_chain(z_from_chain) /\ is_supported_chain(z_to_chain)
     /\ is_supported_token(z_from_chain, z_token)
     /\ AssetPools(z_to_chain, CHAIN_CONFIGS[z_from_chain][z_token].asset) # {}) =>
        /\ IsOk(z_result)
        /\ z_result[2][1] = CHAIN_CONFIGS[z_from_chain][z_token].pool_id
        /\ \E p \in AssetPools(z_to_chain, CHAIN_CONFIGS[z_from_chain][z_token].asset) :
              z_result[2][2] = p.pool_id

\* get_v3_twap gets as far as calculate_twap
ReachesCalculateTwap ==
    /\ t_pool.rpc_ok
    /\ ~t_pool.sqrt_price_is_zero
    /\ t_pool.token # "other"
    /\ validate_observations(t_pool.initialized)
    /\ t_pool.cardinality >= MIN_TWAP_CARDINALITY

\* C40: in calculate_twap, for the look-back sequence of
\* get_twap_observation_times, the time difference of every interval between
\* consecutive observations is a positive 300 seconds, computed without u32
\* underflow.
C40_IntervalSeconds ==
    (t_called /\ ReachesCalculateTwap) =>
        /\ t_result.kind # "Panic"
        /\ \A i \in 1..(Len(get_twap_observation_times) - 1) :
              /\ ~u32_underflow(get_twap_observation_times[i + 1], get_twap_observation_times[i])
              /\ time_diff(get_twap_observation_times, i, t_build) = [hi |-> 0, lo |-> 300]

====
